---------------------------- MODULE Spec2Model ----------------------------
(***************************************************************************)
(* A model of the incremental catalog synchroniser: the sync driver        *)
(* (src/sync.py), the upsert engine and the relation reconciler            *)
(* (src/db/operations.py), the lookup cache (src/db/cache.py), the field   *)
(* extraction rules (src/models/anime.py), the timestamp parser            *)
(* (src/utils/parsers.py) and the checkpoint file (src/utils/sync_state.py)*)
(*                                                                         *)
(* Conventions.  NULL (0) stands for Python's None and SQL's NULL; ids,    *)
(* timestamps and years are positive integers; names and urls are strings, *)
(* with "" the falsy one.  A table with a PRIMARY KEY is a set of rows, a  *)
(* table without a uniqueness constraint on the modelled columns is a bag. *)
(***************************************************************************)
EXTENDS Integers, Sequences, FiniteSets, Bags, TLC

VARIABLES
    db,              \* the store as the open transaction of the connection sees it
    committed,       \* the store as of the last commit
    cache,           \* Cache: name -> id for genres, persons, studios
    checkpoint,      \* content of LAST_SYNC_FILE: a raw timestamp, RawNone if no file
    feed,            \* the upstream catalog: a sequence of pages of items
    stop,            \* stop_event.is_set()
    pc,              \* position of periodic_sync / fetch_and_save
    passes,          \* number of passes started
    last_sync,       \* fetch_and_save local
    newest,          \* fetch_and_save local newest_update_overall
    page_url,        \* fetch_and_save local: index of the next page, NULL for None
    results,         \* items of the current page not yet iterated
    total_count,     \* fetch_and_save local
    consecutive_old, \* fetch_and_save local
    metrics,         \* SyncMetrics counters
    exit_reason,     \* how the while loop of the last pass was left
    dropped_url,     \* the next_page value discarded by the cutoff (NULL if none)
    tiebreak,        \* the store's order among rows of equal updated_at
    call,            \* record of the last direct call of a store operation
    history,         \* the finished passes, oldest first: outcome and feed of each
    ledger,          \* updated_at of the items this pass processed: pending, durable
    tasks,           \* the concurrent get_or_create calls on the Cache, by task
    locks            \* Cache._locks: per kind, the task that holds the lock (NULL: free)

vars == <<db, committed, cache, checkpoint, feed, stop, pc, passes, last_sync,
          newest, page_url, results, total_count, consecutive_old, metrics,
          exit_reason, dropped_url, tiebreak, call, history, ledger, tasks, locks>>

NULL == 0

----------------------------------------------------------------------------
(* Program constants (src/config.py).                                      *)

BATCH_SIZE == 200
CONSECUTIVE_OLD_THRESHOLD == 50
API_RETRY_COUNT == 3
API_RETRY_BACKOFF_BASE == 2

----------------------------------------------------------------------------
(* Bounds of the model.                                                    *)

MaxTime == 2        \* timestamps are 1..MaxTime
MaxPasses == 2      \* passes periodic_sync starts in the driver specification
MaxUpsertTime == 2  \* timestamps of the items upsert_anime is called with directly
MaxRelCalls == 4    \* direct calls of sync_relations in the reconciler specification
MaxFeedItems == 3   \* items of the feed in the driver specification
PageLen == 2        \* items the list endpoint serves on a page
MaxCutoffProcessed == 2  \* items processed in a pass of the cutoff specification
NumTasks == 3       \* concurrent callers of get_or_create in the cache specification
MaxBatchPage == 201 \* items of the long page in the batch specification
MaxRetries == 4     \* greatest retries argument of fetch_page in the transport specification

----------------------------------------------------------------------------
(* Small helpers.                                                          *)

Max(a, b) == IF a >= b THEN a ELSE b

RECURSIVE SeqToSet(_)
SeqToSet(s) == IF s = <<>> THEN {} ELSE {Head(s)} \cup SeqToSet(Tail(s))

RECURSIVE SelectSeqNames(_)
\* [x for x in names if x]: the truthy names of a list, in order
SelectSeqNames(names) ==
    IF names = <<>> THEN <<>>
    ELSE IF Head(names) # "" THEN <<Head(names)>> \o SelectSeqNames(Tail(names))
         ELSE SelectSeqNames(Tail(names))

\* SQL equality: never true when either side is NULL
SqlEq(col, val) == col # NULL /\ val # NULL /\ col = val

----------------------------------------------------------------------------
(* Timestamps on the wire (src/utils/parsers.py).  A raw timestamp is the  *)
(* string the API sends, modelled by its shape: absent ("none"), not an    *)
(* ISO string ("bad"), a naive ISO string ("naive"), one ending in Z ("z") *)
(* or one with a +HH:00 offset ("offset", off hours ahead of UTC).  t is   *)
(* the wall-clock reading of the string in hours.                          *)

Raw(kind, t, off) == [kind |-> kind, t |-> t, off |-> off]
RawNone == Raw("none", 0, 0)
RawBad == Raw("bad", 0, 0)
RawZ(t) == Raw("z", t, 0)
RawNaive(t) == Raw("naive", t, 0)
RawOffset(t, off) == Raw("offset", t, off)

\* parse_datetime: None for a falsy or unparsable string, else the naive UTC time
parse_datetime(s) ==
    CASE s.kind = "none" -> NULL
      [] s.kind = "bad" -> NULL
      [] s.kind = "naive" -> s.t
      [] s.kind = "z" -> s.t
      [] s.kind = "offset" -> s.t - s.off

----------------------------------------------------------------------------
(* Catalog items (AnimeDict with its nested material_data, flattened: the  *)
(* m_ fields and the lists of genres, persons and studios are keys of      *)
(* material_data; m_keys tells that material_data carries a key the other  *)
(* fields do not show, a key the program never reads or a list key whose   *)
(* value is empty; a missing or empty material_data is the item whose      *)
(* material fields are all absent and whose m_keys is FALSE).              *)

NoLists ==
    [anime_genres |-> <<>>, genres |-> <<>>, all_genres |-> <<>>,
     screenshots |-> <<>>, m_screenshots |-> <<>>,
     actors |-> <<>>, directors |-> <<>>, producers |-> <<>>,
     writers |-> <<>>, composers |-> <<>>, anime_studios |-> <<>>,
     blocked_countries |-> <<>>, blocked_seasons |-> [kind |-> "none", map |-> {}]]

Item(id, sid, msid, imdb, title_orig, year, updated_at, tr) ==
    [id |-> id, shikimori_id |-> sid, m_shikimori_id |-> msid, imdb_id |-> imdb,
     title_orig |-> title_orig, year |-> year, updated_at |-> updated_at,
     title |-> 1, translation |-> tr, m_keys |-> FALSE, rel |-> NoLists]

\* item.get("translation"): absent (present: the value is truthy), a
\* descriptor {id, title}, or a truthy value that is no object (dict = FALSE)
NoTr == [present |-> FALSE, dict |-> TRUE, id |-> NULL, title |-> NULL]
Tr(id) == [present |-> TRUE, dict |-> TRUE, id |-> id, title |-> id]
TrMalformed == [present |-> TRUE, dict |-> FALSE, id |-> NULL, title |-> NULL]

\* tr.get("id") raises on a truthy translation that has no get
\* a descriptor without an id: tr.get("id") is None
TrNoId == [present |-> TRUE, dict |-> TRUE, id |-> NULL, title |-> 1]

TranslationRaises(item) == item.translation.present /\ ~item.translation.dict

----------------------------------------------------------------------------
(* The store (src/db/schema.py).                                           *)

EmptyDb ==
    [anime |-> {}, anime_next |-> 1,
     translations |-> EmptyBag,
     genres |-> {}, persons |-> {}, studios |-> {},
     ref_next |-> [genres |-> 1, persons |-> 1, studios |-> 1],
     anime_genres |-> {}, anime_persons |-> {}, anime_studios |-> {},
     anime_screenshots |-> EmptyBag,
     blocked_countries |-> EmptyBag, blocked_seasons |-> EmptyBag]

EmptyCache == [genres |-> {}, persons |-> {}, studios |-> {}]

RowOf(d, id) == CHOOSE r \in d.anime : r.id = id
MaxUpdated(rows) ==
    IF rows = {} THEN NULL
    ELSE CHOOSE t \in {r.updated_at : r \in rows} :
            \A r \in rows : r.updated_at <= t

----------------------------------------------------------------------------
(* Record Matcher (src/db/operations.py, find_existing_anime).             *)

\* item.get("shikimori_id") or (material or {}).get("shikimori_id")
ItemShikimori(item) ==
    IF item.shikimori_id # NULL THEN item.shikimori_id ELSE item.m_shikimori_id

\* a faulty test of the conditions list: the early return is never taken
NoConditionsNever(item) == FALSE

\* the conditions list is empty: no query is issued
NoConditions(item) ==
    /\ ItemShikimori(item) = NULL
    /\ item.imdb_id = NULL
    /\ ~(item.title_orig # NULL /\ item.year # NULL)

\* the WHERE clause: the OR of the conditions whose inputs are present
Matches(r, item) ==
    \/ SqlEq(r.shikimori_id, ItemShikimori(item))
    \/ SqlEq(r.imdb_id, item.imdb_id)
    \/ (item.title_orig # NULL /\ item.year # NULL
          /\ SqlEq(r.title_orig, item.title_orig) /\ SqlEq(r.year, item.year))

\* a faulty order: ORDER BY updated_at ASC, the oldest row first
FirstByUpdatedAsc(rows, tb) ==
    CHOOSE r \in rows : \A q \in rows :
        r.updated_at < q.updated_at \/ (r.updated_at = q.updated_at /\ r.id <= q.id)

\* ORDER BY updated_at DESC LIMIT 1 (NULL sorts lowest); rows of equal
\* updated_at come in the store's own order, tb
FirstByUpdated(rows, tb) ==
    LET top == {r \in rows : r.updated_at = MaxUpdated(rows)}
    IN  IF tb = "low_id"
        THEN CHOOSE r \in top : \A q \in top : r.id <= q.id
        ELSE CHOOSE r \in top : \A q \in top : r.id >= q.id

find_existing_anime(d, tb, item) ==
    IF NoConditions(item) THEN NULL
    ELSE LET rows == {r \in d.anime : Matches(r, item)}
         IN  IF rows = {} THEN NULL ELSE FirstByUpdated(rows, tb).id

----------------------------------------------------------------------------
(* Upsert Engine (src/db/operations.py, build_anime_values, upsert_anime). *)

\* the mapped fields of a row, computed once from the item and its material
build_anime_values(item) ==
    [title |-> item.title,
     title_orig |-> item.title_orig,
     year |-> item.year,
     imdb_id |-> item.imdb_id,
     shikimori_id |-> ItemShikimori(item),
     updated_at |-> parse_datetime(item.updated_at)]

\* a row: the mapped fields under an internal id and an external catalog id
MakeRow(id, kodik_id, v) ==
    [id |-> id, kodik_id |-> kodik_id, title |-> v.title,
     title_orig |-> v.title_orig, year |-> v.year, imdb_id |-> v.imdb_id,
     shikimori_id |-> v.shikimori_id, updated_at |-> v.updated_at]

\* a faulty short-circuit test: an item as fresh as the row is written again
FreshnessNoopStrict(db_updated, item_updated) ==
    db_updated # NULL /\ item_updated # NULL /\ item_updated < db_updated

\* a faulty short-circuit test: an older item is taken for a newer one
FreshnessNoopNever(db_updated, item_updated) ==
    db_updated # NULL /\ item_updated # NULL /\ item_updated > db_updated

\* the short-circuit test of the update path:
\* db_updated and item_updated and item_updated <= db_updated
FreshnessNoop(db_updated, item_updated) ==
    db_updated # NULL /\ item_updated # NULL /\ item_updated <= db_updated

\* UPDATE anime SET <all mapped fields> WHERE id = id
UpdateFields(d, id, v) ==
    [d EXCEPT !.anime =
        {IF r.id = id THEN MakeRow(r.id, r.kodik_id, v) ELSE r : r \in d.anime}]

\* UPDATE anime SET kodik_id = k WHERE id = id
UpdateKodik(d, id, k) ==
    [d EXCEPT !.anime =
        {IF r.id = id THEN [r EXCEPT !.kodik_id = k] ELSE r : r \in d.anime}]

\* the UNIQUE constraint on kodik_id rejects the write of k to row id
KodikTaken(d, id, k) == \E r \in d.anime : r.id # id /\ r.kodik_id = k

\* what a call returns, with the store it leaves and the number of SELECT
\* (reads) and INSERT/UPDATE (writes) statements it issued
Ret(d, id, changed, added, reads, writes) ==
    [db |-> d, id |-> id, changed |-> changed, added |-> added, raised |-> FALSE,
     reads |-> reads, writes |-> writes]
Raise(d, reads, writes) ==
    [db |-> d, id |-> NULL, changed |-> FALSE, added |-> FALSE, raised |-> TRUE,
     reads |-> reads, writes |-> writes]

\* the SELECT of find_existing_anime is issued unless the conditions list is empty
MatcherReads(item) == IF NoConditions(item) THEN 0 ELSE 1

upsert_anime(d, tb, item) ==
    LET kodik_id == item.id
        item_updated == parse_datetime(item.updated_at)
        existing_anime_id == find_existing_anime(d, tb, item)
        values == build_anime_values(item)
        q == MatcherReads(item) + 1
    IN  IF existing_anime_id # NULL
        THEN IF FreshnessNoop(RowOf(d, existing_anime_id).updated_at, item_updated)
             THEN Ret(d, existing_anime_id, FALSE, FALSE, q, 0)
             ELSE LET d1 == UpdateFields(d, existing_anime_id, values)
                  IN  IF kodik_id = NULL \/ KodikTaken(d1, existing_anime_id, kodik_id)
                      THEN Raise(d1, q, 1)
                      ELSE Ret(UpdateKodik(d1, existing_anime_id, kodik_id),
                               existing_anime_id, TRUE, FALSE, q, 2)
        ELSE LET byKodik == {r \in d.anime : SqlEq(r.kodik_id, kodik_id)}
             IN  IF byKodik # {}
                 THEN LET anime_id == (CHOOSE r \in byKodik : TRUE).id
                      IN  Ret(UpdateFields(d, anime_id, values), anime_id,
                              TRUE, FALSE, q, 1)
                 ELSE IF kodik_id = NULL
                      THEN Raise(d, q, 0)
                      ELSE Ret([d EXCEPT
                                  !.anime = @ \cup {MakeRow(d.anime_next, kodik_id, values)},
                                  !.anime_next = @ + 1],
                               d.anime_next, TRUE, TRUE, q, 1)

----------------------------------------------------------------------------
(* Lookup Cache (src/db/cache.py).  A reference table is a set of rows     *)
(* [id, name] with a UNIQUE name; a cache of a kind is a set of            *)
(* <<name, id>> pairs with one pair per name (a dict).                     *)

\* a faulty cache test: no name is ever found in the cache
CacheHasNever(c, name) == FALSE

CacheHas(c, name) == \E e \in c : e[1] = name
CacheGet(c, name) == (CHOOSE e \in c : e[1] = name)[2]

\* Cache.load: the three reference tables as name -> id
CacheLoad(d) ==
    [genres |-> {<<r.name, r.id>> : r \in d.genres},
     persons |-> {<<r.name, r.id>> : r \in d.persons},
     studios |-> {<<r.name, r.id>> : r \in d.studios}]

\* a name longer than the name column (VARCHAR(200) or VARCHAR(255)), and
\* what INSERT IGNORE stores of it: the name cut to the column, with a warning
LongName == "name longer than the column"
CutName == "name longer"
ColumnValue(name) == IF name = LongName THEN CutName ELSE name

\* INSERT IGNORE INTO table (name): no row is added under a name already
\* there, but the statement has taken an id of the AUTO_INCREMENT counter all
\* the same, so the next row of the table skips it
InsertIgnoreName(d, table, name) ==
    IF \E r \in d[table] : r.name = ColumnValue(name)
    THEN [d EXCEPT !.ref_next[table] = @ + 1]
    ELSE [d EXCEPT ![table] = @ \cup {[id |-> d.ref_next[table],
                                         name |-> ColumnValue(name)]},
                   !.ref_next[table] = @ + 1]

\* get_or_create: the id (NULL for None), the store and the cache it leaves,
\* and the statements it issued
get_or_create(d, c, table, name) ==
    IF name = ""
    THEN [db |-> d, cache |-> c, id |-> NULL, reads |-> 0, writes |-> 0]
    ELSE IF CacheHas(c[table], name)
    THEN [db |-> d, cache |-> c, id |-> CacheGet(c[table], name),
          reads |-> 0, writes |-> 0]
    ELSE LET d1 == InsertIgnoreName(d, table, name)
             rows == {r \in d1[table] : r.name = name}
         IN  IF rows # {}
             THEN LET entity_id == (CHOOSE r \in rows : TRUE).id
                  IN  [db |-> d1,
                       cache |-> [c EXCEPT ![table] = @ \cup {<<name, entity_id>>}],
                       id |-> entity_id, reads |-> 1, writes |-> 1]
             ELSE [db |-> d1, cache |-> c, id |-> NULL, reads |-> 1, writes |-> 1]

RECURSIVE get_ids_batch_keep_unresolved(_, _, _, _)
\* a faulty batch: the None of an unresolved name is appended with the ids
get_ids_batch_keep_unresolved(d, c, table, names) ==
    IF names = <<>>
    THEN [db |-> d, cache |-> c, ids |-> <<>>]
    ELSE LET one == get_or_create(d, c, table, Head(names))
             rest == get_ids_batch_keep_unresolved(one.db, one.cache, table, Tail(names))
         IN  [db |-> rest.db, cache |-> rest.cache,
              ids |-> IF Head(names) # "" THEN <<one.id>> \o rest.ids ELSE rest.ids]

RECURSIVE get_ids_batch(_, _, _, _)
\* get_genre_ids_batch, get_person_ids_batch, get_studio_ids_batch: the ids of
\* the truthy names that resolve, in input order
\* (one is what get_or_create returned for the first name, rest what the
\* loop leaves for the others; each is bound to its value once)
get_ids_batch(d, c, table, names) ==
    IF names = <<>>
    THEN [db |-> d, cache |-> c, ids |-> <<>>]
    ELSE CHOOSE b \in UNION {
             { [db |-> rest.db, cache |-> rest.cache,
                ids |-> IF one.id # NULL THEN <<one.id>> \o rest.ids ELSE rest.ids] :
               rest \in {get_ids_batch(one.db, one.cache, table, Tail(names))} } :
             one \in {IF Head(names) # ""
                      THEN get_or_create(d, c, table, Head(names))
                      ELSE [db |-> d, cache |-> c, id |-> NULL]} } : TRUE

----------------------------------------------------------------------------
(* Extraction rules (src/models/anime.py).                                 *)

\* the first truthy list of anime_genres, genres, all_genres; its truthy names
extract_genres(item) ==
    LET m == item.rel
        genres == IF m.anime_genres # <<>> THEN m.anime_genres
                  ELSE IF m.genres # <<>> THEN m.genres
                  ELSE m.all_genres
    IN  SelectSeqNames(genres)

RECURSIVE Dedup(_, _)
\* list(dict.fromkeys(s)): the first occurrences, in order
Dedup(s, seen) ==
    IF s = <<>> THEN <<>>
    ELSE IF Head(s) \in seen THEN Dedup(Tail(s), seen)
         ELSE <<Head(s)>> \o Dedup(Tail(s), seen \cup {Head(s)})

extract_screenshots(item) == Dedup(item.rel.screenshots \o item.rel.m_screenshots, {})

\* the keys of material_data the model carries
MaterialLists == {"anime_genres", "genres", "all_genres", "m_screenshots", "actors",
                  "directors", "producers", "writers", "composers", "anime_studios"}

\* item.get("material_data") or {} is truthy: material_data carries a key,
\* whichever it is and whatever its value
MaterialTruthy(item) ==
    \/ item.m_keys
    \/ item.m_shikimori_id # NULL
    \/ \E f \in MaterialLists : item.rel[f] # <<>>

\* the role -> people mapping, as the sequence of its items() in dict order:
\* no role at all for a falsy material, the five roles for any other, each
\* with the list of its key or the empty list
get_person_mapping(item) ==
    IF ~MaterialTruthy(item) THEN <<>> ELSE
    << <<"actor", item.rel.actors>>, <<"director", item.rel.directors>>,
       <<"producer", item.rel.producers>>, <<"writer", item.rel.writers>>,
       <<"composer", item.rel.composers>> >>

get_studios(item) == SelectSeqNames(item.rel.anime_studios)

get_blocked_countries(item) == item.rel.blocked_countries

\* the value of blocked_seasons: absent (kind "none"), the number 0 ("zero"),
\* a map season -> data ("map"), the string "all" ("all"), or a truthy value
\* of another shape, such as 42 ("other")
\* not blocked_seasons: None, 0 and the empty map are falsy
SeasonsFalsy(b) == b.kind \in {"none", "zero"} \/ (b.kind = "map" /\ b.map = {})

\* a faulty normalization: the sentinel "all" is taken for an unexpected value
normalize_blocked_seasons_no_sentinel(b) ==
    IF ~SeasonsFalsy(b) /\ b.kind = "map" THEN b.map ELSE {}

\* normalize_blocked_seasons: the season -> data map to store ({} for None)
normalize_blocked_seasons(b) ==
    IF SeasonsFalsy(b) THEN {}
    ELSE IF b.kind = "map" THEN b.map
    ELSE IF b.kind = "all" THEN {<<"all", "all">>}
    ELSE {}

\* line 90: the warning of normalize_blocked_seasons is logged
normalize_warns(b) == ~SeasonsFalsy(b) /\ b.kind # "map" /\ b.kind # "all"

----------------------------------------------------------------------------
(* Relation Reconciler (src/db/operations.py, sync_relations and           *)
(* check_new_translation).  A call threads st = [db, cache, log]; log is   *)
(* the sequence of DELETE and INSERT statements issued on the relation     *)
(* tables, each with the keys it names.                                    *)

Stmt(table, op, keys) == [table |-> table, op |-> op, keys |-> keys]

\* a faulty diff: everything stored is deleted and everything desired inserted
DiffPlanReplaceAll(existing, new) == [to_delete |-> existing, to_insert |-> new]

\* a faulty diff: nothing stored is ever removed
DiffPlanNoRemoval(existing, new) == [to_delete |-> {}, to_insert |-> new \ existing]

\* to_delete = existing - new, to_insert = new - existing
DiffPlan(existing, new) ==
    [to_delete |-> existing \ new, to_insert |-> new \ existing]

\* the statements of a diff: the DELETE if to_delete, then the INSERT if to_insert
DiffStmts(table, plan) ==
    (IF plan.to_delete # {} THEN <<Stmt(table, "delete", plan.to_delete)>> ELSE <<>>)
    \o (IF plan.to_insert # {} THEN <<Stmt(table, "insert", plan.to_insert)>> ELSE <<>>)

\* the keys stored for an anime in a junction table (rows <<anime_id, key>>)
LinksOf(d, junction, anime_id) == {x[2] : x \in {y \in d[junction] : y[1] = anime_id}}

\* the DELETE ... IN (to_delete) and the INSERT IGNORE of to_insert on a table
\* whose primary key is the whole row
ApplySetPlan(d, junction, anime_id, plan) ==
    [d EXCEPT ![junction] =
        (@ \ {<<anime_id, k>> : k \in plan.to_delete})
            \cup {<<anime_id, k>> : k \in plan.to_insert}]

\* genres (table "genres", junction "anime_genres") and studios alike
SyncLinks(st, anime_id, junction, table, names) ==
    IF names # <<>>
    THEN LET existing == LinksOf(st.db, junction, anime_id)
             b == get_ids_batch(st.db, st.cache, table, names)
             plan == DiffPlan(existing, SeqToSet(b.ids))
         IN  [db |-> ApplySetPlan(b.db, junction, anime_id, plan),
              cache |-> b.cache,
              log |-> st.log \o DiffStmts(junction, plan)]
    ELSE [db |-> [st.db EXCEPT ![junction] = {x \in @ : x[1] # anime_id}],
          cache |-> st.cache,
          log |-> Append(st.log, Stmt(junction, "delete_all", {}))]

\* the rows of a bag-valued table that belong to an anime
BagRowsOf(B, anime_id) == {x \in DOMAIN B : x[1] = anime_id}
BagDrop(B, rows) == [x \in (DOMAIN B) \ rows |-> B[x]]

RECURSIVE SeqToBag(_)
SeqToBag(s) == IF s = <<>> THEN EmptyBag ELSE SetToBag({Head(s)}) (+) SeqToBag(Tail(s))

\* screenshots: the table has no uniqueness constraint and the INSERT is plain
SyncScreenshots(st, anime_id, item) ==
    LET screenshots == extract_screenshots(item)
        B == st.db.anime_screenshots
    IN  IF screenshots # <<>>
        THEN LET existing == {x[2] : x \in BagRowsOf(B, anime_id)}
                 plan == DiffPlan(existing, SeqToSet(screenshots))
                 B1 == BagDrop(B, {<<anime_id, u>> : u \in plan.to_delete})
                 B2 == B1 (+) SetToBag({<<anime_id, u>> : u \in plan.to_insert})
             IN  [db |-> [st.db EXCEPT !.anime_screenshots = B2],
                  cache |-> st.cache,
                  log |-> st.log \o DiffStmts("anime_screenshots", plan)]
        ELSE [db |-> [st.db EXCEPT !.anime_screenshots = BagDrop(B, BagRowsOf(B, anime_id))],
              cache |-> st.cache,
              log |-> Append(st.log, Stmt("anime_screenshots", "delete_all", {}))]

RECURSIVE ResolvePersons(_, _, _)
\* the loop over person_mapping.items(): the (person_id, role) pairs of the
\* people that resolve
ResolvePersons(d, c, mapping) ==
    IF mapping = <<>>
    THEN [db |-> d, cache |-> c, pairs |-> {}]
    ELSE LET role == Head(mapping)[1]
             people == Head(mapping)[2]
             b == IF people # <<>>
                  THEN get_ids_batch(d, c, "persons", people)
                  ELSE [db |-> d, cache |-> c, ids |-> <<>>]
             rest == ResolvePersons(b.db, b.cache, Tail(mapping))
         IN  [db |-> rest.db, cache |-> rest.cache,
              pairs |-> {<<pid, role>> : pid \in SeqToSet(b.ids)} \cup rest.pairs]

\* persons: one DELETE per removed pair (logged as one statement naming them
\* all), then the INSERT IGNORE of the added pairs
SyncPersons(st, anime_id, item) ==
    LET r == ResolvePersons(st.db, st.cache, get_person_mapping(item))
    IN  IF r.pairs # {}
        THEN LET existing == LinksOf(r.db, "anime_persons", anime_id)
                 plan == DiffPlan(existing, r.pairs)
             IN  [db |-> ApplySetPlan(r.db, "anime_persons", anime_id, plan),
                  cache |-> r.cache,
                  log |-> st.log \o DiffStmts("anime_persons", plan)]
        ELSE [db |-> [r.db EXCEPT !.anime_persons = {x \in @ : x[1] # anime_id}],
              cache |-> r.cache,
              log |-> Append(st.log, Stmt("anime_persons", "delete_all", {}))]

\* a row of anime_translations with this anime_id and external_id exists
TranslationExists(d, anime_id, external_id) ==
    \E x \in DOMAIN d.translations : x[1] = anime_id /\ SqlEq(x[2], external_id)

\* translations: inserted only when no row of that pair exists
SyncTranslation(st, anime_id, item) ==
    LET tr == item.translation
    IN  IF tr.present /\ ~TranslationExists(st.db, anime_id, tr.id)
        THEN [st EXCEPT
                !.db.translations = @ (+) SetToBag({<<anime_id, tr.id, tr.title>>}),
                !.log = Append(@, Stmt("anime_translations", "insert",
                                        {<<anime_id, tr.id, tr.title>>}))]
        ELSE st

\* a faulty block: the rows of the item are inserted beside the stored ones
SyncBlockedNoDelete(st, anime_id, item) ==
    LET countries == get_blocked_countries(item)
        seasons == normalize_blocked_seasons(item.rel.blocked_seasons)
        cRows == [i \in 1..Len(countries) |-> <<anime_id, countries[i]>>]
        sRows == {<<anime_id, e[1], <<"json", e[2]>> >> : e \in seasons}
    IN  [st EXCEPT
            !.db.blocked_countries = @ (+) SeqToBag(cRows),
            !.db.blocked_seasons = @ (+) SetToBag(sRows)]

\* blocked_countries and blocked_seasons: deleted, then inserted from the item
SyncBlocked(st, anime_id, item) ==
    LET countries == get_blocked_countries(item)
        seasons == normalize_blocked_seasons(item.rel.blocked_seasons)
        C0 == BagDrop(st.db.blocked_countries, BagRowsOf(st.db.blocked_countries, anime_id))
        S0 == BagDrop(st.db.blocked_seasons, BagRowsOf(st.db.blocked_seasons, anime_id))
        cRows == [i \in 1..Len(countries) |-> <<anime_id, countries[i]>>]
        sRows == {<<anime_id, e[1], <<"json", e[2]>> >> : e \in seasons}
    IN  [st EXCEPT
            !.db.blocked_countries = C0 (+) SeqToBag(cRows),
            !.db.blocked_seasons = S0 (+) SetToBag(sRows),
            !.log = @ \o << Stmt("blocked_countries", "delete_all", {}),
                            Stmt("blocked_seasons", "delete_all", {}) >>
                      \o (IF countries # <<>>
                          THEN <<Stmt("blocked_countries", "insert", SeqToSet(cRows))>>
                          ELSE <<>>)
                      \o (IF seasons # {}
                          THEN <<Stmt("blocked_seasons", "insert", sRows)>>
                          ELSE <<>>)]

\* the k-th block of sync_relations, in the order of the source: genres,
\* screenshots, persons, studios, translation, blocked countries and seasons
RelationStage(st, k, anime_id, item) ==
    CASE k = 1 -> SyncLinks(st, anime_id, "anime_genres", "genres", extract_genres(item))
      [] k = 2 -> SyncScreenshots(st, anime_id, item)
      [] k = 3 -> SyncPersons(st, anime_id, item)
      [] k = 4 -> SyncLinks(st, anime_id, "anime_studios", "studios", get_studios(item))
      [] k = 5 -> SyncTranslation(st, anime_id, item)
      [] OTHER -> SyncBlocked(st, anime_id, item)

RECURSIVE RunStages(_, _, _, _)
\* the blocks from the k-th on, each on the store the one before left; the
\* translation block raises on a malformed translation and ends the call
\* (s is what the k-th block leaves, bound to its value once)
RunStages(st, k, anime_id, item) ==
    IF k > 6 \/ (k = 5 /\ TranslationRaises(item)) THEN st
    ELSE CHOOSE end \in { RunStages(s, k + 1, anime_id, item) :
                          s \in {RelationStage(st, k, anime_id, item)} } : TRUE

\* the store, the cache and the statements the call leaves, and whether it raised
sync_relations(d, c, anime_id, item) ==
    RunStages([db |-> d, cache |-> c, log |-> <<>>], 1, anime_id, item)
        @@ [raised |-> TranslationRaises(item),
            warned |-> (~TranslationRaises(item)
                          /\ normalize_warns(item.rel.blocked_seasons))]

----------------------------------------------------------------------------
(* The statements of an item, one at a time.  upsert_anime and             *)
(* sync_relations await every statement, so the event loop may run a       *)
(* callback (the signal handler that sets the stop signal) between any two *)
(* of them.  A frame is the store and the cache as a statement leaves      *)
(* them, with what the code does up to its next await; the frames of a     *)
(* call are listed in the order of its statements.                         *)

Frame(d, c) == [db |-> d, cache |-> c]

\* the frames of the writes of upsert_anime, u being what it returned: the
\* UPDATE of the fields and the UPDATE of kodik_id of the match path (the
\* second one may be rejected), the UPDATE of the row found by kodik_id, or
\* the INSERT
UpsertFrames(d, c, tb, item, u) ==
    { IF existing_anime_id # NULL
      THEN IF FreshnessNoop(RowOf(d, existing_anime_id).updated_at,
                            parse_datetime(item.updated_at))
           THEN <<>>
           ELSE <<Frame(UpdateFields(d, existing_anime_id, build_anime_values(item)), c)>>
                   \o (IF u.raised THEN <<>> ELSE <<Frame(u.db, c)>>)
      ELSE IF u.raised THEN <<>> ELSE <<Frame(u.db, c)>>
      : existing_anime_id \in {find_existing_anime(d, tb, item)} }

RECURSIVE BatchFrames(_, _, _, _)
\* the frames of a batch lookup: for every truthy name that is not cached the
\* INSERT IGNORE, then the SELECT with the cache entry it leaves
BatchFrames(d, c, table, names) ==
    IF names = <<>> THEN {<<>>}
    ELSE IF Head(names) = "" \/ CacheHas(c[table], Head(names))
    THEN BatchFrames(d, c, table, Tail(names))
    ELSE { <<Frame(InsertIgnoreName(d, table, Head(names)), c), Frame(one.db, one.cache)>>
              \o rest :
           one \in {get_or_create(d, c, table, Head(names))},
           rest \in UNION { BatchFrames(o.db, o.cache, table, Tail(names)) :
                            o \in {get_or_create(d, c, table, Head(names))} } }

\* genres and studios: the lookups, the DELETE of to_delete, the INSERT IGNORE
\* of to_insert; or the DELETE of every row of the anime
LinksFrames(st, anime_id, junction, table, names) ==
    IF names # <<>>
    THEN { lookups
             \o <<Frame(ApplySetPlan(b.db, junction, anime_id,
                     [to_delete |-> LinksOf(st.db, junction, anime_id) \ SeqToSet(b.ids),
                      to_insert |-> {}]), b.cache),
                  Frame(end.db, end.cache)>> :
           b \in {get_ids_batch(st.db, st.cache, table, names)},
           end \in {SyncLinks(st, anime_id, junction, table, names)},
           lookups \in BatchFrames(st.db, st.cache, table, names) }
    ELSE { <<Frame(end.db, end.cache)>> :
           end \in {SyncLinks(st, anime_id, junction, table, names)} }

\* screenshots: the DELETE ... IN (to_delete), then the INSERT of to_insert;
\* or the DELETE of every row of the anime
ScreenshotFrames(st, anime_id, item) ==
    { (IF extract_screenshots(item) # <<>>
       THEN <<Frame([st.db EXCEPT !.anime_screenshots =
                        BagDrop(@, {<<anime_id, u>> :
                                     u \in {x[2] : x \in BagRowsOf(@, anime_id)}
                                              \ SeqToSet(extract_screenshots(item))})],
                    st.cache)>>
       ELSE <<>>)
      \o <<Frame(end.db, end.cache)>> :
      end \in {SyncScreenshots(st, anime_id, item)} }

\* the orders in which a loop over a set may take its members
Orders(S) ==
    {f \in [1..Cardinality(S) -> S] : \A i, j \in DOMAIN f : i # j => f[i] # f[j]}

RECURSIVE PersonLookupFrames(_, _, _)
\* the lookups of the roles, in the order of the mapping
PersonLookupFrames(d, c, mapping) ==
    IF mapping = <<>> THEN {<<>>}
    ELSE IF Head(mapping)[2] = <<>>
    THEN PersonLookupFrames(d, c, Tail(mapping))
    ELSE { f \o g :
           f \in BatchFrames(d, c, "persons", Head(mapping)[2]),
           g \in UNION { PersonLookupFrames(b.db, b.cache, Tail(mapping)) :
                         b \in {get_ids_batch(d, c, "persons", Head(mapping)[2])} } }

\* persons: the lookups, one DELETE for each pair of to_delete, in the order
\* the loop over the set takes them, then the INSERT IGNORE of to_insert; or
\* the DELETE of every row of the anime.  One list of frames for each order.
PersonsFrames(st, anime_id, item) ==
    UNION {
      { lookups
          \o [i \in 1..Len(o) |->
                Frame([r.db EXCEPT !.anime_persons =
                          @ \ {<<anime_id, o[j]>> : j \in 1..i}], r.cache)]
          \o <<Frame(end.db, end.cache)>> :
        lookups \in PersonLookupFrames(st.db, st.cache, get_person_mapping(item)),
        o \in Orders(IF r.pairs # {}
                     THEN LinksOf(r.db, "anime_persons", anime_id) \ r.pairs
                     ELSE {}) }
      : r \in {ResolvePersons(st.db, st.cache, get_person_mapping(item))},
        end \in {SyncPersons(st, anime_id, item)} }

\* the translation: its INSERT, if any
TranslationFrames(st, anime_id, item) ==
    { <<Frame(end.db, end.cache)>> : end \in {SyncTranslation(st, anime_id, item)} }

\* the blocks: the two DELETEs, the INSERT of the countries, that of the seasons
BlockedFrames(st, anime_id, item) ==
    { << Frame([st.db EXCEPT !.blocked_countries =
                   BagDrop(@, BagRowsOf(@, anime_id))], st.cache),
         Frame([st.db EXCEPT !.blocked_countries = BagDrop(@, BagRowsOf(@, anime_id)),
                             !.blocked_seasons = BagDrop(@, BagRowsOf(@, anime_id))],
               st.cache),
         Frame([end.db EXCEPT !.blocked_seasons =
                   BagDrop(st.db.blocked_seasons,
                           BagRowsOf(st.db.blocked_seasons, anime_id))], st.cache),
         Frame(end.db, end.cache) >> :
      end \in {SyncBlocked(st, anime_id, item)} }

\* the lists of frames of the k-th block of sync_relations
BlockFrames(st, k, anime_id, item) ==
    CASE k = 1 -> LinksFrames(st, anime_id, "anime_genres", "genres", extract_genres(item))
      [] k = 2 -> ScreenshotFrames(st, anime_id, item)
      [] k = 3 -> PersonsFrames(st, anime_id, item)
      [] k = 4 -> LinksFrames(st, anime_id, "anime_studios", "studios", get_studios(item))
      [] k = 5 -> TranslationFrames(st, anime_id, item)
      [] OTHER -> BlockedFrames(st, anime_id, item)

RECURSIVE StageFrames(_, _, _, _)
\* the lists of frames of the blocks from the k-th on; a malformed
\* translation ends the call at its block
StageFrames(st, k, anime_id, item) ==
    IF k > 6 \/ (k = 5 /\ TranslationRaises(item)) THEN {<<>>}
    ELSE { f \o g : f \in BlockFrames(st, k, anime_id, item),
                    g \in UNION { StageFrames(s, k + 1, anime_id, item) :
                                  s \in {RelationStage(st, k, anime_id, item)} } }

\* the lists of frames of sync_relations
RelationFrames(d, c, anime_id, item) ==
    StageFrames([db |-> d, cache |-> c, log |-> <<>>], 1, anime_id, item)

RECURSIVE Compress(_, _)
\* the frames that differ from the one before: a statement that changes
\* neither the store nor the cache leaves the frame of the one before it
Compress(prev, frames) ==
    IF frames = <<>> THEN <<>>
    ELSE IF Head(frames) = prev THEN Compress(prev, Tail(frames))
         ELSE <<Head(frames)>> \o Compress(Head(frames), Tail(frames))

\* a faulty check: no translation is ever new
check_new_translation_never(d, anime_id, item) == FALSE

\* check_new_translation: the item carries a translation of which the anime has no row
check_new_translation(d, anime_id, item) ==
    item.translation.present /\ ~TranslationExists(d, anime_id, item.translation.id)

----------------------------------------------------------------------------
(* Initial values shared by the specifications.                            *)

ZeroMetrics ==
    [added_count |-> 0, updated_count |-> 0, unchanged_count |-> 0, errors_count |-> 0]

NoItem == Item(NULL, NULL, NULL, NULL, NULL, NULL, RawNone, NoTr)

NoCall ==
    [n |-> 0, op |-> "none", item |-> NoItem, anime_id |-> NULL,
     id |-> NULL, changed |-> FALSE, added |-> FALSE, raised |-> FALSE,
     repeat |-> FALSE, prev_id |-> NULL, wrote |-> FALSE,
     log |-> <<>>,
     warned |-> FALSE]

\* no item processed: the timestamps of the items processed since the last
\* commit (pending) and of those whose writes are committed (durable)
\* the kinds of reference entity the Cache holds, each with its lock
Kinds == {"genres", "persons", "studios"}

\* the tasks that may call get_or_create concurrently
Tasks == 1..NumTasks

\* a task that has not called yet; waiter is the place of a waiting task in
\* the queue of waiters of the lock of its kind (1 is the first), 0 otherwise
NoTask == [pc |-> "idle", table |-> "genres", name |-> "", cached |-> FALSE,
           id |-> NULL, stmts |-> 0, inserts |-> 0, waiter |-> 0]
NoTasks == [t \in Tasks |-> NoTask]
NoLocks == [k \in Kinds |-> NULL]

\* uncommitted counts the items processed since the last commit
NoLedger == [pending |-> {}, durable |-> {}, uncommitted |-> 0]

\* a commit makes the pending items durable
Committed(l) ==
    [pending |-> {}, durable |-> l.durable \cup l.pending, uncommitted |-> 0]

DriverIdle ==
    /\ stop = FALSE
    /\ pc = "idle"
    /\ passes = 0
    /\ last_sync = NULL
    /\ newest = NULL
    /\ page_url = NULL
    /\ results = <<>>
    /\ total_count = 0
    /\ consecutive_old = 0
    /\ metrics = ZeroMetrics
    /\ exit_reason = "none"
    /\ dropped_url = NULL
    /\ history = <<>>
    /\ ledger = NoLedger
    /\ tasks = NoTasks
    /\ locks = NoLocks

driverVars == <<stop, pc, passes, last_sync, newest, page_url, results, total_count,
                consecutive_old, metrics, exit_reason, dropped_url, history, ledger, tasks, locks>>

----------------------------------------------------------------------------
(* Checkpoint file (src/utils/sync_state.py).  The content of the file is  *)
(* a raw timestamp: RawNone when the file does not exist.                  *)

\* save_last_sync writes dt.isoformat(), the naive ISO string of dt
save_last_sync(dt) == RawNaive(dt)

\* a faulty load: a content that cannot be parsed is read as the latest time
load_last_sync_corrupt_as_latest(file) ==
    IF file.kind = "naive" THEN file.t ELSE IF file.kind = "bad" THEN MaxTime ELSE NULL

\* An aware datetime, of the instant t - off.  Naive datetimes are the
\* positive integers and None is 0; an aware datetime is written as a
\* negative integer, -(AwareBase + instant), so that a local holds either.
AwareBase == 100
Aware(t, off) == -(AwareBase + t - off)
IsAware(dt) == dt < 0

\* load_last_sync: None for a missing file or a content fromisoformat rejects;
\* a content with a Z or an offset is read as it stands, as an aware datetime
\* (parse_datetime is not used here)
load_last_sync(file) ==
    CASE file.kind = "naive" -> file.t
      [] file.kind \in {"z", "offset"} -> Aware(file.t, file.off)
      [] OTHER -> NULL

----------------------------------------------------------------------------
(* Sync Driver (src/sync.py, fetch_and_save and periodic_sync).            *)
(* pc: "idle" (periodic_sync between passes), "page" (the while test of    *)
(* fetch_and_save), "item" (the for loop over results), "try" (inside the  *)
(* try block of an item, at an awaited statement), "commit" (at the commit *)
(* of a batch), "stopped" (periodic_sync has returned).                    *)

BASE_URL == 1

\* the response of the list endpoint for a page url of the feed f
PageAt(f, url) ==
    IF url \in DOMAIN f
    THEN [results |-> f[url], next_page |-> IF url < Len(f) THEN url + 1 ELSE NULL]
    ELSE [results |-> <<>>, next_page |-> NULL]

\* a faulty old test: an item as fresh as the checkpoint is not old
IsOldStrict(last, item_updated) ==
    last # NULL /\ item_updated # NULL /\ item_updated < last

\* a faulty old test: nothing is old
IsOldNever(last, item_updated) == FALSE

\* a faulty old test: without a checkpoint every timestamped item is old
IsOldFirstSync(last, item_updated) ==
    item_updated # NULL /\ (last = NULL \/ item_updated <= last)

\* line 68 compares a naive item_updated with an aware last_sync: TypeError
CompareRaises(last, item_updated) == IsAware(last) /\ item_updated # NULL

\* not is_first_sync and last_sync and item_updated and item_updated <= last_sync
\* (false here when the comparison raises)
IsOld(last, item_updated) ==
    last # NULL /\ item_updated # NULL /\ ~IsAware(last) /\ item_updated <= last

\* a faulty counter: a mark counts twice
MarkTwice(m, counter) == [m EXCEPT ![counter] = @ + 2]

\* mark_added, mark_updated, mark_unchanged, mark_error
Mark(m, counter) == [m EXCEPT ![counter] = @ + 1]

\* lines 123-124: the file after the loop, given newest_update_overall
EndOfPassValue(file, newest_update_overall) ==
    IF newest_update_overall # NULL THEN save_last_sync(newest_update_overall) ELSE file

\* lines 123-126, reached by every way out of the while loop: the checkpoint
\* is saved if a timestamp was tracked, the transaction is committed, and
\* control is back in periodic_sync
Finish(reason, m) ==
    /\ checkpoint' = EndOfPassValue(checkpoint, newest)
    /\ committed' = db
    /\ metrics' = m
    /\ exit_reason' = reason
    /\ pc' = "idle"
    /\ history' = Append(history,
                         [exit_reason |-> reason, metrics |-> m, feed |-> feed,
                          loaded |-> last_sync, file |-> checkpoint,
                          checkpoint |-> EndOfPassValue(checkpoint, newest)])
    /\ ledger' = Committed(ledger)
    /\ UNCHANGED <<db, cache, feed, stop, passes, last_sync, newest, page_url,
                   results, total_count, consecutive_old, dropped_url, tiebreak, call, tasks, locks>>

\* a faulty loop test: a pass is started although the stop signal is set
StartPassIgnoringStop ==
    /\ pc = "idle"
    /\ passes < MaxPasses
    /\ passes' = passes + 1
    /\ committed' = db
    /\ cache' = CacheLoad(db)
    /\ last_sync' = load_last_sync(checkpoint)
    /\ newest' = NULL
    /\ page_url' = BASE_URL
    /\ results' = <<>>
    /\ total_count' = 0
    /\ consecutive_old' = 0
    /\ metrics' = ZeroMetrics
    /\ exit_reason' = "none"
    /\ dropped_url' = NULL
    /\ pc' = "page"
    /\ ledger' = NoLedger
    /\ UNCHANGED <<db, checkpoint, feed, stop, tiebreak, call, history, tasks, locks>>

\* periodic_sync starts a pass: ensure_tables (which commits), Cache.load,
\* load_last_sync and the locals of fetch_and_save
StartPass ==
    /\ pc = "idle"
    /\ ~stop
    /\ passes < MaxPasses
    /\ passes' = passes + 1
    /\ committed' = db
    /\ cache' = CacheLoad(db)
    /\ last_sync' = load_last_sync(checkpoint)
    /\ newest' = NULL
    /\ page_url' = BASE_URL
    /\ results' = <<>>
    /\ total_count' = 0
    /\ consecutive_old' = 0
    /\ metrics' = ZeroMetrics
    /\ exit_reason' = "none"
    /\ dropped_url' = NULL
    /\ pc' = "page"
    /\ ledger' = NoLedger
    /\ UNCHANGED <<db, checkpoint, feed, stop, tiebreak, call, history, tasks, locks>>

\* periodic_sync sees the stop signal after a pass or in its wait, and returns
Stopped ==
    /\ pc = "idle"
    /\ stop
    /\ pc' = "stopped"
    /\ UNCHANGED <<db, committed, cache, checkpoint, feed, stop, passes, last_sync,
                   newest, page_url, results, total_count, consecutive_old, metrics,
                   exit_reason, dropped_url, tiebreak, call, history, ledger, tasks, locks>>

\* while page_url: the loop ends because page_url is None
LoopExit ==
    /\ pc = "page"
    /\ page_url = NULL
    /\ Finish(IF exit_reason = "none" THEN "exhausted" ELSE exit_reason, metrics)

\* lines 42-44: the stop signal is seen before a page is fetched
StopAtPage ==
    /\ pc = "page"
    /\ page_url # NULL
    /\ stop
    /\ Finish("stopped", metrics)

\* a faulty handler: the failure of fetch_page ends periodic_sync
FetchRaiseFatal ==
    /\ pc = "page"
    /\ page_url # NULL
    /\ ~stop
    /\ pc' = "stopped"
    /\ UNCHANGED <<db, committed, cache, checkpoint, feed, stop, passes, last_sync,
                   newest, page_url, results, total_count, consecutive_old, metrics,
                   exit_reason, dropped_url, tiebreak, call, history, ledger, tasks,
                   locks>>

\* lines 46-51: fetch_page raised after its retries
FetchRaise ==
    /\ pc = "page"
    /\ page_url # NULL
    /\ ~stop
    /\ Finish("fetch_failed", Mark(metrics, "errors_count"))

\* lines 53-54: fetch_page returned nothing
FetchEmpty ==
    /\ pc = "page"
    /\ page_url # NULL
    /\ ~stop
    /\ Finish("empty", metrics)

\* lines 56-60: a page was fetched
FetchOk(data) ==
    /\ pc = "page"
    /\ page_url # NULL
    /\ ~stop
    /\ page_url' = data.next_page
    /\ results' = data.results
    /\ pc' = "item"
    /\ UNCHANGED <<db, committed, cache, checkpoint, feed, stop, passes, last_sync,
                   newest, total_count, consecutive_old, metrics, exit_reason,
                   dropped_url, tiebreak, call, history, ledger, tasks, locks>>

\* a faulty page end: the commit of line 120 is left out
PageDoneNoCommit ==
    /\ pc = "item"
    /\ results = <<>>
    /\ pc' = "page"
    /\ UNCHANGED <<db, committed, cache, checkpoint, feed, stop, passes, last_sync,
                   newest, page_url, results, total_count, consecutive_old, metrics,
                   exit_reason, dropped_url, tiebreak, call, history, ledger, tasks,
                   locks>>

\* a faulty page end: the counter of old items starts again on every page
PageDoneResetsOld ==
    /\ pc = "item"
    /\ results = <<>>
    /\ committed' = db
    /\ pc' = "page"
    /\ consecutive_old' = 0
    /\ ledger' = Committed(ledger)
    /\ UNCHANGED <<db, cache, checkpoint, feed, stop, passes, last_sync, newest,
                   page_url, results, total_count, metrics,
                   exit_reason, dropped_url, tiebreak, call, history, tasks, locks>>

\* the for loop ran out of items: line 120 commits the page
PageDone ==
    /\ pc = "item"
    /\ results = <<>>
    /\ committed' = db
    /\ pc' = "page"
    /\ ledger' = Committed(ledger)
    /\ UNCHANGED <<db, cache, checkpoint, feed, stop, passes, last_sync, newest,
                   page_url, results, total_count, consecutive_old, metrics,
                   exit_reason, dropped_url, tiebreak, call, history, tasks, locks>>

\* a faulty break: the page commit of line 120 is skipped when the stop signal
\* ends the item loop
StopAtItemNoCommit ==
    /\ pc = "item"
    /\ results # <<>>
    /\ stop
    /\ pc' = "page"
    /\ exit_reason' = "stopped"
    /\ UNCHANGED <<db, committed, cache, checkpoint, feed, stop, passes, last_sync,
                   newest, page_url, results, total_count, consecutive_old, metrics,
                   dropped_url, tiebreak, call, history, ledger, tasks, locks>>

\* lines 63-65: the stop signal is seen before an item; the break leads to line 120
StopAtItem ==
    /\ pc = "item"
    /\ results # <<>>
    /\ stop
    /\ committed' = db
    /\ pc' = "page"
    /\ ledger' = Committed(ledger)
    /\ exit_reason' = "stopped"
    /\ UNCHANGED <<db, cache, checkpoint, feed, stop, passes, last_sync, newest,
                   page_url, results, total_count, consecutive_old, metrics,
                   dropped_url, tiebreak, call, history, tasks, locks>>

\* a faulty threshold test: one more old item is let through
CutoffReachedLate(n) == n > CONSECUTIVE_OLD_THRESHOLD

\* line 71: consecutive_old >= CONSECUTIVE_OLD_THRESHOLD
CutoffReached(n) == n >= CONSECUTIVE_OLD_THRESHOLD

\* a faulty old branch: the old item is counted as unchanged
ItemOldMarked ==
    /\ pc = "item"
    /\ results # <<>>
    /\ ~stop
    /\ IsOld(last_sync, parse_datetime(Head(results).updated_at))
    /\ consecutive_old' = consecutive_old + 1
    /\ metrics' = Mark(metrics, "unchanged_count")
    /\ IF CutoffReached(consecutive_old + 1)
       THEN /\ page_url' = NULL
            /\ dropped_url' = page_url
            /\ exit_reason' = "cutoff"
            /\ committed' = db
            /\ pc' = "page"
            /\ ledger' = Committed(ledger)
            /\ UNCHANGED results
       ELSE /\ results' = Tail(results)
            /\ UNCHANGED <<page_url, dropped_url, exit_reason, committed, pc, ledger>>
    /\ UNCHANGED <<db, cache, checkpoint, feed, stop, passes, last_sync, newest,
                   total_count, tiebreak, call, history, tasks, locks>>

\* lines 67-74: an old item; at the threshold page_url is dropped and the break
\* leads to line 120
ItemOld ==
    /\ pc = "item"
    /\ results # <<>>
    /\ ~stop
    /\ IsOld(last_sync, parse_datetime(Head(results).updated_at))
    /\ consecutive_old' = consecutive_old + 1
    /\ IF CutoffReached(consecutive_old + 1)
       THEN /\ page_url' = NULL
            /\ dropped_url' = page_url
            /\ exit_reason' = "cutoff"
            /\ committed' = db
            /\ pc' = "page"
            /\ ledger' = Committed(ledger)
            /\ UNCHANGED results
       ELSE /\ results' = Tail(results)
            /\ UNCHANGED <<page_url, dropped_url, exit_reason, committed, pc, ledger>>
    /\ UNCHANGED <<db, cache, checkpoint, feed, stop, passes, last_sync, newest,
                   total_count, metrics, tiebreak, call, history, tasks, locks>>

\* a faulty tracking: the timestamp of the last item processed, not the newest
NewestOfLast(newest_update_overall, item_updated) ==
    IF item_updated # NULL THEN item_updated ELSE newest_update_overall

\* lines 112-114: newest_update_overall after an item is processed
NewestOf(newest_update_overall, item_updated) ==
    IF item_updated # NULL /\
          (newest_update_overall = NULL \/ item_updated > newest_update_overall)
    THEN item_updated ELSE newest_update_overall

\* the items an item step processed enter the ledger as pending
Processed(l, stamps, n) ==
    [l EXCEPT !.pending = @ \cup stamps, !.uncommitted = @ + n]

\* a faulty handler: the failed item is also counted as unchanged
OnItemErrorCounted(m) == Mark(Mark(m, "errors_count"), "unchanged_count")

\* lines 116-118: the except clause of the item
OnItemError(m) == Mark(m, "errors_count")

\* a faulty batch test: no batch boundary is ever seen
BatchBoundaryNever(n) == FALSE

\* line 103: total_count % BATCH_SIZE == 0
BatchBoundary(n) == n % BATCH_SIZE = 0

\* what the try block leaves when it raised: the writes made so far stay in
\* the open transaction, the counters of the processed items are not touched
ItemFailed(d, c, m, total, newest_update_overall) ==
    [rel |-> [db |-> d, cache |-> c], metrics |-> OnItemError(m),
     total_count |-> total, newest |-> newest_update_overall,
     batch |-> FALSE, stamps |-> {}, raised |-> TRUE, synced |-> FALSE]

\* lines 82-118 for one item, u being what upsert_anime returned or raised
\* and the store it left: what the try block leaves in the store and the
\* cache (rel), in the metrics and in the locals
ProcessRest(u, c, m, total, newest_update_overall, item) ==
    LET item_updated == parse_datetime(item.updated_at)
        check == ~u.raised /\ ~u.changed /\ ~u.added /\ u.id # NULL
    IN  IF u.raised \/ (check /\ TranslationRaises(item))
        THEN ItemFailed(u.db, c, m, total, newest_update_overall)
        ELSE LET new_translation_added ==
                    check /\ check_new_translation(u.db, u.id, item)
                 sync == u.changed \/ new_translation_added
                 failed == sync /\ TranslationRaises(item)
             IN  [rel |-> IF sync
                          THEN sync_relations(u.db, c, u.id, item)
                          ELSE [db |-> u.db, cache |-> c],
                  metrics |-> IF failed THEN OnItemError(m)
                              ELSE Mark(m, IF ~sync THEN "unchanged_count"
                                           ELSE IF u.added THEN "added_count"
                                           ELSE "updated_count"),
                  total_count |-> IF failed THEN total ELSE total + 1,
                  newest |-> IF failed THEN newest_update_overall
                             ELSE NewestOf(newest_update_overall, item_updated),
                  batch |-> (~failed /\ BatchBoundary(total + 1)),
                  stamps |-> IF failed THEN {} ELSE {item_updated} \ {NULL},
                  raised |-> failed, synced |-> (sync /\ ~failed)]

\* lines 78-118 for one item
ProcessItem(d, c, tb, m, total, newest_update_overall, item) ==
    CHOOSE p \in { ProcessRest(u, c, m, total, newest_update_overall, item) :
                   u \in {upsert_anime(d, tb, item)} } : TRUE

\* the lists of frames of lines 78-87 for one item: the writes of
\* upsert_anime, then those of sync_relations if it is called
ItemFrames(d, c, tb, item) ==
    UNION {
      { Compress(Frame(d, c), f \o r) :
          f \in UpsertFrames(d, c, tb, item, u),
          r \in IF /\ ~u.raised
                   /\ ~(~u.changed /\ ~u.added /\ u.id # NULL /\ TranslationRaises(item))
                   /\ (u.changed \/ (/\ ~u.added /\ u.id # NULL
                                      /\ check_new_translation(u.db, u.id, item)))
                THEN RelationFrames(u.db, c, u.id, item)
                ELSE {<<>>} }
      : u \in {upsert_anime(d, tb, item)} }

\* the try block in flight: the store and the cache it was entered with, the
\* frames its statements have yet to leave, and what it leaves in the metrics
\* and the locals when it is through
InFlight(entry, frames, p) ==
    [op |-> "item", entry |-> entry, rest |-> frames,
     p |-> [rel |-> p.rel, metrics |-> p.metrics, total_count |-> p.total_count,
            newest |-> p.newest, batch |-> p.batch, stamps |-> p.stamps,
            raised |-> p.raised, synced |-> p.synced]]

\* lines 75-80: an item that is not old enters the try block, up to the
\* first statement it awaits
ItemProcess ==
    /\ pc = "item"
    /\ results # <<>>
    /\ ~stop
    /\ ~CompareRaises(last_sync, parse_datetime(Head(results).updated_at))
    /\ ~IsOld(last_sync, parse_datetime(Head(results).updated_at))
    /\ \E p \in {ProcessItem(db, cache, tiebreak, metrics, total_count, newest,
                              Head(results))} :
         \E frames \in ItemFrames(db, cache, tiebreak, Head(results)) :
           call' = InFlight(Frame(db, cache), frames, p)
    /\ consecutive_old' = 0
    /\ pc' = "try"
    /\ UNCHANGED <<db, committed, cache, checkpoint, feed, stop, passes, last_sync,
                   newest, page_url, results, total_count, metrics, exit_reason,
                   dropped_url, tiebreak, history, ledger, tasks, locks>>

\* a faulty item: the stop signal is tested between the statements, and the
\* item is left as the statements made so far wrote it
ItemStatementUnlessStopped ==
    /\ pc = "try"
    /\ call.rest # <<>>
    /\ IF stop
       THEN /\ pc' = "item"
            /\ results' = Tail(results)
            /\ call' = NoCall
            /\ UNCHANGED <<db, cache>>
       ELSE /\ db' = Head(call.rest).db
            /\ cache' = Head(call.rest).cache
            /\ call' = [call EXCEPT !.rest = Tail(@)]
            /\ UNCHANGED <<pc, results>>
    /\ UNCHANGED <<committed, checkpoint, feed, stop, passes, last_sync, newest,
                   page_url, total_count, consecutive_old, metrics, exit_reason,
                   dropped_url, tiebreak, history, ledger, tasks, locks>>

\* a statement of upsert_anime or sync_relations completes
ItemStatement ==
    /\ pc = "try"
    /\ call.rest # <<>>
    /\ db' = Head(call.rest).db
    /\ cache' = Head(call.rest).cache
    /\ call' = [call EXCEPT !.rest = Tail(@)]
    /\ UNCHANGED <<committed, checkpoint, feed, stop, pc, passes, last_sync, newest,
                   page_url, results, total_count, consecutive_old, metrics,
                   exit_reason, dropped_url, tiebreak, history, ledger, tasks, locks>>

\* lines 89-101 and 112-118: the last statement has returned or one has
\* raised; the item is marked and counted.  At a batch boundary the commit of
\* line 104 is awaited before newest_update_overall is tracked
ItemDone ==
    /\ pc = "try"
    /\ call.rest = <<>>
    /\ metrics' = call.p.metrics
    /\ total_count' = call.p.total_count
    /\ ledger' = Processed(ledger, call.p.stamps, IF call.p.raised THEN 0 ELSE 1)
    /\ IF call.p.batch
       THEN /\ pc' = "commit"
            /\ UNCHANGED <<newest, results, call>>
       ELSE /\ pc' = "item"
            /\ newest' = call.p.newest
            /\ results' = Tail(results)
            /\ call' = NoCall
    /\ UNCHANGED <<db, committed, cache, checkpoint, feed, stop, passes, last_sync,
                   page_url, consecutive_old, exit_reason, dropped_url, tiebreak,
                   history, tasks, locks>>

\* lines 104 and 112-114: the commit of a batch returns
BatchCommit ==
    /\ pc = "commit"
    /\ committed' = db
    /\ ledger' = Committed(ledger)
    /\ newest' = call.p.newest
    /\ results' = Tail(results)
    /\ call' = NoCall
    /\ pc' = "item"
    /\ UNCHANGED <<db, cache, checkpoint, feed, stop, passes, last_sync, page_url,
                   total_count, consecutive_old, metrics, exit_reason, dropped_url,
                   tiebreak, history, tasks, locks>>

\* line 68 with a checkpoint that carries an offset: the comparison raises
\* outside the try block of the item, fetch_and_save raises (lines 127-129)
\* and periodic_sync logs it.  The checkpoint is not saved and nothing is
\* committed: the pool closes a connection released inside a transaction, so
\* the writes since the last commit are lost
ItemCompareRaises ==
    /\ pc = "item"
    /\ results # <<>>
    /\ ~stop
    /\ CompareRaises(last_sync, parse_datetime(Head(results).updated_at))
    /\ db' = committed
    /\ exit_reason' = "raised"
    /\ pc' = "idle"
    /\ history' = Append(history,
                         [exit_reason |-> "raised", metrics |-> metrics, feed |-> feed,
                          loaded |-> last_sync, file |-> checkpoint,
                          checkpoint |-> checkpoint])
    /\ ledger' = [ledger EXCEPT !.pending = {}, !.uncommitted = 0]
    /\ UNCHANGED <<committed, cache, checkpoint, feed, stop, passes, last_sync,
                   newest, page_url, results, total_count, consecutive_old, metrics,
                   dropped_url, tiebreak, call, tasks, locks>>

\* the stop signal is set (a signal handler of the process)
SetStop ==
    /\ ~stop
    /\ pc # "stopped"
    /\ stop' = TRUE
    /\ UNCHANGED <<db, committed, cache, checkpoint, feed, pc, passes, last_sync,
                   newest, page_url, results, total_count, consecutive_old, metrics,
                   exit_reason, dropped_url, tiebreak, call, history, ledger, tasks, locks>>

----------------------------------------------------------------------------
(* Specification of the Upsert Engine alone: upsert_anime called with any  *)
(* item of UpsertItems, any number of times, on a store that starts empty. *)

UpsertItems ==
    { Item(k, sid, NULL, imdb, NULL, NULL, ts, NoTr) :
        k \in {1, 2}, sid \in {NULL, 1}, imdb \in {NULL, 1},
        ts \in {RawNone} \cup {RawZ(t) : t \in 1..MaxUpsertTime} }
    \cup { Item(1, NULL, 1, NULL, NULL, NULL, RawOffset(2, 1), NoTr),
           Item(2, NULL, NULL, NULL, 1, 1, RawNaive(1), NoTr),
           Item(1, NULL, NULL, NULL, 1, 1, RawZ(2), NoTr),
           Item(2, NULL, NULL, NULL, 1, NULL, RawBad, NoTr) }

InitUpsert ==
    /\ db = EmptyDb
    /\ committed = EmptyDb
    /\ cache = EmptyCache
    /\ checkpoint = RawNone
    /\ feed = <<>>
    /\ tiebreak \in {"low_id", "high_id"}
    /\ call = NoCall
    /\ DriverIdle

UpsertCall(item) ==
    LET r == upsert_anime(db, tiebreak, item)
    IN  /\ db' = r.db
        /\ call' = [n |-> 0, op |-> "upsert", item |-> item, anime_id |-> NULL,
                    id |-> r.id, changed |-> r.changed, added |-> r.added,
                    raised |-> r.raised,
                    repeat |-> (call.op = "upsert" /\ call.item = item /\ ~call.raised),
                    prev_id |-> call.id,
                    wrote |-> (r.writes > 0),
                    log |-> <<>>, warned |-> FALSE]
        /\ UNCHANGED <<committed, cache, checkpoint, feed, tiebreak>>
        /\ UNCHANGED driverVars

NextUpsert == \E item \in UpsertItems : UpsertCall(item)

SpecUpsert == InitUpsert /\ [][NextUpsert]_vars

----------------------------------------------------------------------------
(* Specification of the Relation Reconciler alone: sync_relations called   *)
(* for either of two stored anime with any item of RelItems, any number of *)
(* times.  The store starts with the two records inserted and no relation  *)
(* row; the cache starts as Cache.load leaves it.                          *)

RelChoices ==
    LET R == NoLists
    IN  { R,
          [R EXCEPT !.anime_genres = <<"A", "B", "C">>],
          [R EXCEPT !.anime_genres = <<"B", "C", "D">>],
          [R EXCEPT !.anime_genres = <<"">>, !.genres = <<"D">>],
          [R EXCEPT !.genres = <<"D", "A">>],
          [R EXCEPT !.all_genres = <<"C">>],
          [R EXCEPT !.screenshots = <<"u1">>, !.m_screenshots = <<"u1", "u2">>],
          [R EXCEPT !.m_screenshots = <<"u2", "u3">>],
          [R EXCEPT !.actors = <<"p1", "p2">>, !.directors = <<"p1">>],
          [R EXCEPT !.actors = <<"p2">>, !.writers = <<"", "p1">>],
          [R EXCEPT !.anime_studios = <<"s1", "s2">>],
          [R EXCEPT !.anime_studios = <<"s2", "", "s3">>],
          [R EXCEPT !.blocked_countries = <<"RU", "RU">>,
                    !.blocked_seasons = [kind |-> "all", map |-> {}]],
          [R EXCEPT !.blocked_countries = <<"US">>,
                    !.blocked_seasons = [kind |-> "map", map |-> {<<"1", "x">>}]],
          [R EXCEPT !.blocked_seasons = [kind |-> "other", map |-> {}]],
          [R EXCEPT !.blocked_seasons = [kind |-> "zero", map |-> {}]],
          [R EXCEPT !.blocked_seasons = [kind |-> "map", map |-> {<<"1", "x">>, <<"2", "y">>}]],
          [R EXCEPT !.anime_genres = <<"A", "B", "C">>, !.screenshots = <<"u1">>,
                    !.actors = <<"p1">>, !.anime_studios = <<"s1">>],
          [R EXCEPT !.anime_genres = <<"B", "C", "D">>, !.m_screenshots = <<"u2">>,
                    !.directors = <<"p1", "p2">>, !.anime_studios = <<"s2">>] }

RelItem(rel, tr) == [Item(1, 1, NULL, NULL, NULL, NULL, RawZ(1), tr) EXCEPT !.rel = rel]

\* the items sync_relations is called with for the first anime, and the few it
\* is called with for the second
RelItems(anime_id) ==
    IF anime_id = 1
    THEN {RelItem(rel, NoTr) : rel \in RelChoices}
            \cup {RelItem(NoLists, Tr(1)), RelItem(NoLists, Tr(2)),
                  RelItem(NoLists, TrNoId),
                  [RelItem(NoLists, NoTr) EXCEPT !.m_keys = TRUE]}
    ELSE {RelItem(rel, Tr(1)) : rel \in
            {r \in RelChoices : r.anime_genres = <<"A", "B", "C">>}}

RelAnimeItems ==
    << Item(1, 1, NULL, NULL, NULL, NULL, RawZ(1), NoTr),
       Item(2, 2, NULL, NULL, NULL, NULL, RawZ(1), NoTr) >>

RelInitDb ==
    upsert_anime(upsert_anime(EmptyDb, "low_id", RelAnimeItems[1]).db,
                 "low_id", RelAnimeItems[2]).db

InitRel ==
    /\ db = RelInitDb
    /\ committed = EmptyDb
    /\ cache = CacheLoad(RelInitDb)
    /\ checkpoint = RawNone
    /\ feed = <<>>
    /\ tiebreak = "low_id"
    /\ call = NoCall
    /\ DriverIdle

RelCall(anime_id, item) ==
    \E r \in {sync_relations(db, cache, anime_id, item)} :
        /\ call.n < MaxRelCalls
        /\ db' = r.db
        /\ cache' = r.cache
        /\ call' = [NoCall EXCEPT !.n = call.n + 1, !.op = "sync_relations",
                                  !.item = item, !.anime_id = anime_id, !.log = r.log,
                                  !.raised = r.raised, !.warned = r.warned]
        /\ UNCHANGED <<committed, checkpoint, feed, tiebreak>>
        /\ UNCHANGED driverVars

NextRel ==
    \E anime_id \in {r.id : r \in db.anime} :
        \E item \in RelItems(anime_id) : RelCall(anime_id, item)

SpecRel == InitRel /\ [][NextRel]_vars

----------------------------------------------------------------------------
(* Specification of the service: periodic_sync runs up to MaxPasses passes *)
(* of fetch_and_save over a paginated feed of at most MaxFeedItems items,  *)
(* PageLen to a page.  The store starts empty and no checkpoint file       *)
(* exists.  Between two passes the upstream catalog may change.            *)

\* the upstream objects: 1 and 2 are two translations of one anime, 3 has no
\* identity key but its kodik id and a material_data of keys the program never
\* reads, 4 is another anime
DriverItem(k, ts) ==
    CASE k = 1 -> [Item(1, 1, NULL, NULL, NULL, NULL, ts, Tr(1))
                      EXCEPT !.rel.anime_genres = <<"A", "B">>]
      [] k = 2 -> [Item(2, 1, NULL, NULL, NULL, NULL, ts, Tr(2))
                      EXCEPT !.rel.anime_genres = <<"B">>]
      [] k = 3 -> [Item(3, NULL, NULL, NULL, NULL, NULL, ts, NoTr)
                      EXCEPT !.m_keys = TRUE]
      [] OTHER -> [Item(4, 2, NULL, NULL, NULL, NULL, ts, Tr(1))
                      EXCEPT !.rel.anime_studios = <<"s1">>]

DriverKodikIds == 1..4

DriverStamps == {RawNone} \cup {RawZ(t) : t \in 1..MaxTime}

\* the sequences of at most MaxFeedItems items with pairwise different kodik ids
ItemSeqs ==
    UNION { { [i \in 1..n |-> DriverItem(ks[i], ts[i])] :
                ks \in {f \in [1..n -> DriverKodikIds] :
                           \A i, j \in 1..n : i # j => f[i] # f[j]},
                ts \in [1..n -> DriverStamps] } : n \in 0..MaxFeedItems }

\* the list endpoint serves the items PageLen to a page
Paginate(items) ==
    [p \in 1..((Len(items) + PageLen - 1) \div PageLen) |->
        SubSeq(items, (p - 1) * PageLen + 1,
               IF p * PageLen < Len(items) THEN p * PageLen ELSE Len(items))]

RECURSIVE Flatten(_)
Flatten(pages) ==
    IF pages = <<>> THEN <<>> ELSE Head(pages) \o Flatten(Tail(pages))

Init ==
    /\ db = EmptyDb
    /\ committed = EmptyDb
    /\ cache = EmptyCache
    /\ checkpoint = RawNone
    /\ \E items \in ItemSeqs : feed = Paginate(items)
    /\ tiebreak = "low_id"
    /\ call = NoCall
    /\ DriverIdle

\* fetch_page answers with the page of the feed
FetchFeed == FetchOk(PageAt(feed, page_url))

\* between two passes an item of the catalog is updated upstream: it gets
\* another timestamp and moves to the head of the list
UpstreamChange ==
    /\ pc = "idle"
    /\ passes >= 1
    /\ passes < MaxPasses
    /\ history[Len(history)].feed = feed
    /\ LET items == Flatten(feed)
       IN  \E i \in 1..Len(items) : \E ts \in DriverStamps \ {items[i].updated_at} :
             feed' = Paginate(<<[items[i] EXCEPT !.updated_at = ts]>>
                                \o SubSeq(items, 1, i - 1)
                                \o SubSeq(items, i + 1, Len(items)))
    /\ UNCHANGED <<db, committed, cache, checkpoint, stop, pc, passes, last_sync,
                   newest, page_url, results, total_count, consecutive_old, metrics,
                   exit_reason, dropped_url, tiebreak, call, history, ledger, tasks, locks>>

Next ==
    \/ StartPass
    \/ Stopped
    \/ LoopExit
    \/ StopAtPage
    \/ FetchRaise
    \/ FetchEmpty
    \/ FetchFeed
    \/ PageDone
    \/ StopAtItem
    \/ ItemOld
    \/ ItemProcess
    \/ ItemStatement
    \/ ItemDone
    \/ SetStop
    \/ UpstreamChange

Spec == Init /\ [][Next]_vars

----------------------------------------------------------------------------
(* Specification of the cutoff: the service starts on the store and the    *)
(* checkpoint an earlier run left, and the list endpoint serves, page by   *)
(* page, any page of at most PageLen items that are as old as the          *)
(* checkpoint or newer, with or without a next page.  Newer items are      *)
(* served until MaxCutoffProcessed items have been processed in the pass.  *)

\* the only item of the earlier run
CutoffSeed == DriverItem(1, RawZ(1))

\* an item as old as the checkpoint, a newer one, one without a timestamp and
\* one whose timestamp cannot be parsed
CutoffOldItems == {DriverItem(1, RawZ(1))}
CutoffItems == CutoffOldItems \cup {DriverItem(3, RawZ(MaxTime)), DriverItem(4, RawNone),
                                    DriverItem(4, RawBad)}

\* the url of a page after the first: urls are opaque to the driver
MORE_URL == 2

LazyPages(items) ==
    { [results |-> r, next_page |-> n] :
        r \in UNION {[1..k -> items] : k \in 0..PageLen}, n \in {NULL, MORE_URL} }

InitCutoff ==
    /\ \E p \in {ProcessItem(EmptyDb, EmptyCache, "low_id", ZeroMetrics, 0, NULL,
                               CutoffSeed)} :
            /\ db = p.rel.db
            /\ committed = p.rel.db
            /\ checkpoint = save_last_sync(p.newest)
    /\ cache = EmptyCache
    /\ feed = <<>>
    /\ tiebreak = "low_id"
    /\ call = NoCall
    /\ DriverIdle

\* fetch_page answers with some page
FetchLazy ==
    \E data \in LazyPages(IF total_count < MaxCutoffProcessed
                           THEN CutoffItems ELSE CutoffOldItems) : FetchOk(data)

NextCutoff ==
    \/ StartPass
    \/ Stopped
    \/ LoopExit
    \/ StopAtPage
    \/ FetchRaise
    \/ FetchEmpty
    \/ FetchLazy
    \/ PageDone
    \/ StopAtItem
    \/ ItemOld
    \/ ItemProcess
    \/ ItemStatement
    \/ ItemDone
    \/ SetStop

SpecCutoff == InitCutoff /\ [][NextCutoff]_vars

----------------------------------------------------------------------------
(* Specification of the Cache under concurrent callers: NumTasks tasks of  *)
(* one event loop each call get_or_create once, for any kind and any name  *)
(* of CacheNames, on one Cache and one store.  A task runs without         *)
(* interruption from one await that suspends it to the next: the wait for  *)
(* the lock of the kind, the INSERT IGNORE, the SELECT.  The lock of a     *)
(* kind is an asyncio.Lock: a caller takes it at once only when it is not  *)
(* held and no task waits for it, and a release wakes the task that has    *)
(* waited longest.                                                         *)

\* the empty name, two names the name column holds and one it does not
CacheNames == {"", "A", "B", LongName}

\* self._locks[table] is not held
LockFree(l, table) == l[table] = NULL

cacheFrame ==
    <<committed, checkpoint, feed, stop, pc, passes, last_sync, newest, page_url,
      results, total_count, consecutive_old, metrics, exit_reason, dropped_url,
      tiebreak, call, history, ledger>>

\* the tasks in the queue of waiters of self._locks[table]
Waiters(table) == {u \in Tasks : tasks[u].pc = "waiting" /\ tasks[u].table = table}

\* task t goes on as the record now and is no waiter of the lock of the kind;
\* the tasks that still wait for that lock move up by the place it left
Granted(t, table, now) ==
    [u \in Tasks |->
        IF u = t THEN [now EXCEPT !.waiter = 0]
        ELSE IF u \in Waiters(table) /\ tasks[u].waiter > tasks[t].waiter
             THEN [tasks[u] EXCEPT !.waiter = @ - 1]
             ELSE tasks[u]]

\* lines 52-55, reached with the lock just acquired: the name is looked up
\* again; a hit returns and releases the lock, a miss goes on to the INSERT
EnterLocked(t, tk) ==
    IF CacheHas(cache[tk.table], tk.name)
    THEN /\ tasks' = Granted(t, tk.table,
                [tk EXCEPT !.pc = "done", !.id = CacheGet(cache[tk.table], tk.name)])
         /\ locks' = [locks EXCEPT ![tk.table] = NULL]
    ELSE /\ tasks' = Granted(t, tk.table, [tk EXCEPT !.pc = "insert"])
         /\ locks' = [locks EXCEPT ![tk.table] = t]

\* lines 45-51: the call up to the lock, which is taken at once when it is
\* not held and has no waiter; the caller joins the end of the queue otherwise
CallGetOrCreate(t, table, name) ==
    /\ tasks[t].pc = "idle"
    /\ LET tk == [NoTask EXCEPT !.table = table, !.name = name,
                                !.cached = (\E e \in cache[table] : e[1] = name)]
       IN  IF name = ""
           THEN /\ tasks' = [tasks EXCEPT ![t] = [tk EXCEPT !.pc = "done"]]
                /\ UNCHANGED locks
           ELSE IF CacheHas(cache[table], name)
           THEN /\ tasks' = [tasks EXCEPT ![t] =
                        [tk EXCEPT !.pc = "done", !.id = CacheGet(cache[table], name)]]
                /\ UNCHANGED locks
           ELSE IF LockFree(locks, table) /\ Waiters(table) = {}
           THEN EnterLocked(t, tk)
           ELSE /\ tasks' = [tasks EXCEPT ![t] =
                        [tk EXCEPT !.pc = "waiting",
                                   !.waiter = Cardinality(Waiters(table)) + 1]]
                /\ UNCHANGED locks
    /\ UNCHANGED <<db, cache>>
    /\ UNCHANGED cacheFrame

\* line 51: the first of the tasks waiting for the lock, woken by the release,
\* is granted it
AcquireLock(t) ==
    /\ tasks[t].pc = "waiting"
    /\ tasks[t].waiter = 1
    /\ LockFree(locks, tasks[t].table)
    /\ EnterLocked(t, tasks[t])
    /\ UNCHANGED <<db, cache>>
    /\ UNCHANGED cacheFrame

\* lines 56-59: INSERT IGNORE INTO table (name)
InsertIgnore(t) ==
    /\ tasks[t].pc = "insert"
    /\ db' = InsertIgnoreName(db, tasks[t].table, tasks[t].name)
    /\ tasks' = [tasks EXCEPT ![t].pc = "select", ![t].inserts = @ + 1,
                               ![t].stmts = @ + 1]
    /\ UNCHANGED <<cache, locks>>
    /\ UNCHANGED cacheFrame

\* a faulty cache: one dict for the three kinds
SelectIdSharedCache(t) ==
    /\ tasks[t].pc = "select"
    /\ LET table == tasks[t].table
           name == tasks[t].name
           rows == {r \in db[table] : r.name = name}
       IN  IF rows # {}
           THEN LET entity_id == (CHOOSE r \in rows : TRUE).id
                IN  /\ cache' = [k \in Kinds |->
                                    {e \in cache[k] : e[1] # name} \cup {<<name, entity_id>>}]
                    /\ tasks' = [tasks EXCEPT ![t].pc = "done", ![t].id = entity_id,
                                               ![t].stmts = @ + 1]
           ELSE /\ cache' = cache
                /\ tasks' = [tasks EXCEPT ![t].pc = "done", ![t].stmts = @ + 1]
    /\ locks' = [locks EXCEPT ![tasks[t].table] = NULL]
    /\ UNCHANGED db
    /\ UNCHANGED cacheFrame

\* lines 60-71: SELECT id, the cache entry, the return and the release
SelectId(t) ==
    /\ tasks[t].pc = "select"
    /\ LET table == tasks[t].table
           name == tasks[t].name
           rows == {r \in db[table] : r.name = name}
       IN  IF rows # {}
           THEN LET entity_id == (CHOOSE r \in rows : TRUE).id
                IN  /\ cache' = [cache EXCEPT ![table] =
                                    {e \in @ : e[1] # name} \cup {<<name, entity_id>>}]
                    /\ tasks' = [tasks EXCEPT ![t].pc = "done", ![t].id = entity_id,
                                               ![t].stmts = @ + 1]
           ELSE /\ cache' = cache
                /\ tasks' = [tasks EXCEPT ![t].pc = "done", ![t].stmts = @ + 1]
    /\ locks' = [locks EXCEPT ![tasks[t].table] = NULL]
    /\ UNCHANGED db
    /\ UNCHANGED cacheFrame

\* the store holds no reference row, or one genre; the cache is as Cache.load
\* leaves it, or empty although the store holds the genre
InitCache ==
    /\ db \in {EmptyDb, InsertIgnoreName(EmptyDb, "genres", "A")}
    /\ committed = EmptyDb
    /\ cache \in {CacheLoad(db), EmptyCache}
    /\ checkpoint = RawNone
    /\ feed = <<>>
    /\ tiebreak = "low_id"
    /\ call = NoCall
    /\ DriverIdle

NextCache ==
    \E t \in Tasks :
        \/ \E table \in Kinds, name \in CacheNames : CallGetOrCreate(t, table, name)
        \/ AcquireLock(t)
        \/ InsertIgnore(t)
        \/ SelectId(t)

SpecCache == InitCache /\ [][NextCache]_vars

\* Cache.clear: the three dicts are emptied; the locks and the store are not
\* touched.  The method is not a coroutine, so it runs between two awaits of
\* the callers.
ClearCache ==
    /\ cache' = EmptyCache
    /\ UNCHANGED <<db, tasks, locks>>
    /\ UNCHANGED cacheFrame

\* The whole interface of the Cache: the callers of SpecCache and a holder of
\* the Cache that clears it at any point.  No pass of the service calls clear
\* (src/ has no call of it), so the passes are the behaviours of SpecCache.
NextCacheApi == NextCache \/ ClearCache

SpecCacheApi == InitCache /\ [][NextCacheApi]_vars

----------------------------------------------------------------------------
(* Specification of the batches: a first run on an empty store over a feed *)
(* of a long page and a short one, so that the count of processed items    *)
(* reaches the batch size inside a page, at the end of a page or in the    *)
(* page after.                                                             *)

\* the lengths of a page: one item short of a batch, a batch, and the longest
BatchPageLens == {BATCH_SIZE - 1, BATCH_SIZE, MaxBatchPage}

\* the item the feed repeats: one with a timestamp (added, then unchanged) or
\* one without (added, then updated every time)
BatchItems == {DriverItem(1, RawZ(1)), DriverItem(3, RawNone)}

\* a feed of two pages of the same item: a long page, then PageLen items
BatchFeeds ==
    { <<[i \in 1..len |-> it], [i \in 1..PageLen |-> it]>> :
        it \in BatchItems, len \in BatchPageLens }

InitBatch ==
    /\ db = EmptyDb
    /\ committed = EmptyDb
    /\ cache = EmptyCache
    /\ checkpoint = RawNone
    /\ \E f \in BatchFeeds : feed = f
    /\ tiebreak = "low_id"
    /\ call = NoCall
    /\ DriverIdle

NextBatch ==
    \/ StartPass
    \/ Stopped
    \/ LoopExit
    \/ StopAtPage
    \/ FetchRaise
    \/ FetchEmpty
    \/ FetchFeed
    \/ PageDone
    \/ StopAtItem
    \/ ItemOld
    \/ ItemProcess
    \/ ItemStatement
    \/ ItemDone
    \/ BatchCommit
    \/ SetStop

SpecBatch == InitBatch /\ [][NextBatch]_vars

----------------------------------------------------------------------------
(* Specification of the second run: two passes over a feed that does not   *)
(* change, on a store that starts empty.  The feed is two pages of three   *)
(* items, or a page of old items as long as the cutoff threshold, or one   *)
(* item shorter, followed by a page with an item that has no timestamp.    *)

\* the lengths of the long page: one item short of the cutoff, and the cutoff
RerunPageLens == {CONSECUTIVE_OLD_THRESHOLD - 1, CONSECUTIVE_OLD_THRESHOLD}

RerunFeeds ==
    { << <<DriverItem(1, RawZ(1)), DriverItem(2, RawZ(1)), DriverItem(4, RawZ(2))>>,
         <<DriverItem(4, RawZ(2)), DriverItem(1, RawZ(1)), DriverItem(2, RawZ(1))>> >>,
      << <<DriverItem(1, RawZ(1)), DriverItem(3, RawNone), DriverItem(4, RawZ(2))>>,
         <<DriverItem(4, RawZ(2)), DriverItem(3, RawNone), DriverItem(1, RawZ(1))>> >> }
    \cup { << [i \in 1..len |-> DriverItem(1, RawZ(1))],
              <<DriverItem(3, RawNone), DriverItem(1, RawZ(1))>> >> :
             len \in RerunPageLens }

InitRerun ==
    /\ db = EmptyDb
    /\ committed = EmptyDb
    /\ cache = EmptyCache
    /\ checkpoint = RawNone
    /\ \E f \in RerunFeeds : feed = f
    /\ tiebreak = "low_id"
    /\ call = NoCall
    /\ DriverIdle

NextRerun ==
    \/ StartPass
    \/ Stopped
    \/ LoopExit
    \/ StopAtPage
    \/ FetchRaise
    \/ FetchEmpty
    \/ FetchFeed
    \/ PageDone
    \/ StopAtItem
    \/ ItemOld
    \/ ItemProcess
    \/ ItemStatement
    \/ ItemDone
    \/ SetStop

SpecRerun == InitRerun /\ [][NextRerun]_vars

----------------------------------------------------------------------------
(* Specification of the checkpoint load: the service starts on the store   *)
(* an earlier run left, and the checkpoint file is missing, holds a        *)
(* content that cannot be parsed, holds what the earlier run saved, or     *)
(* holds a time with a Z (a file another tool wrote).                      *)

LoadSeed == DriverItem(1, RawZ(1))

\* the item of the earlier run as it was and updated, another translation
\* of its anime, a new one, and one without a timestamp
LoadItems == {DriverItem(1, RawZ(1)), DriverItem(1, RawZ(2)), DriverItem(2, RawZ(1)),
              DriverItem(4, RawZ(2)), DriverItem(3, RawNone)}

LoadItemSeqs ==
    UNION { {f \in [1..n -> LoadItems] : \A i, j \in 1..n : i # j => f[i] # f[j]} :
            n \in 0..MaxFeedItems }

InitLoad ==
    /\ \E p \in {ProcessItem(EmptyDb, EmptyCache, "low_id", ZeroMetrics, 0, NULL,
                               LoadSeed)} :
            /\ db = p.rel.db
            /\ committed = p.rel.db
            /\ checkpoint \in {RawNone, RawBad, save_last_sync(p.newest), RawZ(1)}
    /\ cache = EmptyCache
    /\ \E items \in LoadItemSeqs : feed = Paginate(items)
    /\ tiebreak = "low_id"
    /\ call = NoCall
    /\ DriverIdle

NextLoad ==
    \/ Next
    \/ ItemCompareRaises

SpecLoad == InitLoad /\ [][NextLoad]_vars

----------------------------------------------------------------------------
(* Specification of the periodic loop with its progress: the service of    *)
(* Spec over a few feeds, where a step of the loops of periodic_sync and   *)
(* fetch_and_save that can be taken is taken in the end (fetch_page        *)
(* returns or raises after its retries, a commit returns, the wait of the  *)
(* interval times out or is ended by the stop signal, a statement of an    *)
(* item in flight returns).  Nothing is assumed of the environment: the    *)
(* stop signal and the upstream changes may never come.                    *)

LiveItems == {DriverItem(1, RawZ(1)), DriverItem(2, RawZ(2)), DriverItem(3, RawNone)}

LiveItemSeqs ==
    UNION { {f \in [1..n -> LiveItems] : \A i, j \in 1..n : i # j => f[i] # f[j]} :
            n \in 0..MaxFeedItems }

InitLive ==
    /\ db = EmptyDb
    /\ committed = EmptyDb
    /\ cache = EmptyCache
    /\ checkpoint = RawNone
    /\ \E items \in LiveItemSeqs : feed = Paginate(items)
    /\ tiebreak = "low_id"
    /\ call = NoCall
    /\ DriverIdle

\* the steps of the two loops and of an item in flight, the start of an
\* item apart
LoopStep ==
    \/ StartPass
    \/ Stopped
    \/ LoopExit
    \/ StopAtPage
    \/ FetchRaise
    \/ FetchEmpty
    \/ FetchFeed
    \/ PageDone
    \/ StopAtItem
    \/ ItemOld
    \/ ItemStatement
    \/ ItemDone

SpecLive == InitLive /\ [][Next]_vars /\ WF_vars(LoopStep)

----------------------------------------------------------------------------
(* Specification of the failing items: the service starts on the store and *)
(* the checkpoint an earlier run left (two records), and the feed holds    *)
(* items whose processing raises among items whose processing does not.    *)

\* the items of the earlier run: an anime with a shikimori id, and a record
\* known by its kodik id alone
FaultSeeds == <<DriverItem(1, RawZ(1)), DriverItem(3, RawZ(1))>>

\* kodik id 3 now carries the shikimori id of the first record: the UPDATE of
\* the fields succeeds, the UPDATE of kodik_id hits the UNIQUE constraint
FaultConflict == Item(3, 1, NULL, NULL, NULL, NULL, RawZ(2), Tr(1))

\* a new anime whose translation is no object: sync_relations raises at the
\* translation block, after the insert and the blocks before it
FaultNewMalformed ==
    [Item(5, 3, NULL, NULL, NULL, NULL, RawZ(2), TrMalformed)
        EXCEPT !.rel.anime_genres = <<"C">>]

\* an item of the first record whose translation is no object: once the
\* record is as fresh, check_new_translation raises
FaultSameMalformed == Item(2, 1, NULL, NULL, NULL, NULL, RawZ(2), TrMalformed)

FaultItems == {FaultConflict, FaultNewMalformed, FaultSameMalformed,
               DriverItem(1, RawZ(2)), DriverItem(4, RawZ(2))}

FaultItemSeqs ==
    UNION { {f \in [1..n -> FaultItems] : \A i, j \in 1..n : i # j => f[i] # f[j]} :
            n \in 0..MaxFeedItems }

InitFault ==
    /\ \E p1 \in {ProcessItem(EmptyDb, EmptyCache, "low_id", ZeroMetrics, 0, NULL,
                                FaultSeeds[1])} :
       \E p2 \in {ProcessItem(p1.rel.db, p1.rel.cache, "low_id", p1.metrics,
                                p1.total_count, p1.newest, FaultSeeds[2])} :
            /\ db = p2.rel.db
            /\ committed = p2.rel.db
            /\ checkpoint = save_last_sync(p2.newest)
    /\ cache = EmptyCache
    /\ \E items \in FaultItemSeqs : feed = Paginate(items)
    /\ tiebreak = "low_id"
    /\ call = NoCall
    /\ DriverIdle

SpecFault == InitFault /\ [][Next]_vars

----------------------------------------------------------------------------
(* Claims about the Upsert Engine, checked under SpecUpsert.               *)

UpsertRepeated == call.op = "upsert" /\ call.repeat

UpsertNoop ==
    /\ ~call.raised
    /\ call.id = call.prev_id
    /\ ~call.changed
    /\ ~call.added
    /\ ~call.wrote

\* the item carries a parseable updated_at and at least one matcher identity
HasFreshnessAndIdentity(item) ==
    parse_datetime(item.updated_at) # NULL /\ ~NoConditions(item)

\* C5 as stated: for every item, a second upsert_anime call with the identical
\* item, right after a first call that returned, returns (id, false, false) with
\* the first call's id and writes nothing.
C5_AnyItemIdempotent == UpsertRepeated => UpsertNoop

\* C5 amended: for every item that carries a parseable updated_at and at least
\* one matcher identity (shikimori id, imdb id, or title_orig with year), a second
\* upsert_anime call with the identical item, right after a first call that
\* returned, returns (id, false, false) with the first call's id and writes
\* nothing.
C5_Idempotent ==
    (UpsertRepeated /\ HasFreshnessAndIdentity(call.item)) => UpsertNoop

C5_Witness ==
    /\ UpsertRepeated
    /\ HasFreshnessAndIdentity(call.item)
    /\ call.id # NULL
    /\ Cardinality(db.anime) = 2

\* the record r may be written by upsert_anime(item): the matcher resolves the
\* item to r and the short-circuit test fails, or the matcher finds nothing and
\* r carries the item's external catalog id
MayWrite(r, item) ==
    LET m == find_existing_anime(db, tiebreak, item)
        its == parse_datetime(item.updated_at)
    IN  IF m # NULL
        THEN r.id = m /\ (its > r.updated_at \/ its = NULL \/ r.updated_at = NULL)
        ELSE SqlEq(r.kodik_id, item.id)

\* C6 as stated: a stored record is mutated only when the incoming updated_at is
\* strictly newer than the stored one, its updated_at never decreases, and no
\* record is ever deleted.
C6_OnlyNewerMutates ==
    [][\A r \in db.anime : \E q \in db'.anime :
          /\ q.id = r.id
          /\ q.updated_at >= r.updated_at
          /\ q # r => parse_datetime(call'.item.updated_at) > r.updated_at]_vars

\* C6 amended: no record is ever deleted, and upsert_anime mutates a stored
\* record only when the matcher resolves the item to it and the incoming
\* updated_at is strictly newer than the stored one or one of the two is absent,
\* or when the matcher finds nothing and the record carries the item's external
\* catalog id; the stored updated_at decreases only when the incoming one is
\* absent or the record was found by its external catalog id.
C6_Lifecycle ==
    [][\A r \in db.anime : \E q \in db'.anime :
          /\ q.id = r.id
          /\ q # r => MayWrite(r, call'.item)
          /\ q.updated_at < r.updated_at =>
                \/ parse_datetime(call'.item.updated_at) = NULL
                \/ find_existing_anime(db, tiebreak, call'.item) = NULL]_vars

C6_Witness ==
    /\ call.op = "upsert"
    /\ call.changed /\ ~call.added /\ call.wrote
    /\ Cardinality(db.anime) = 2
    /\ RowOf(db, call.id).updated_at = parse_datetime(call.item.updated_at)
    /\ parse_datetime(call.item.updated_at) # NULL

----------------------------------------------------------------------------
(* Claims about the Relation Reconciler, checked under SpecRel.            *)

\* the ids the reference table of d gives to the truthy names of a list
NameIds(d, table, names) ==
    {r.id : r \in {x \in d[table] : x.name # "" /\ x.name \in SeqToSet(names)}}

\* the desired sets of an item, by the extraction rules, with the ids of d
DesiredGenres(d, item) == NameIds(d, "genres", extract_genres(item))
DesiredStudios(d, item) == NameIds(d, "studios", get_studios(item))
DesiredPersons(d, item) ==
    LET m == get_person_mapping(item)
    IN  UNION {{<<pid, m[i][1]>> : pid \in NameIds(d, "persons", m[i][2])} : i \in 1..Len(m)}
DesiredScreenshots(item) == SeqToSet(extract_screenshots(item))

StoredScreenshots(d, anime_id) == {x[2] : x \in BagRowsOf(d.anime_screenshots, anime_id)}

\* the statements of a log on one table, in order
StmtsOn(log, table) == SelectSeq(log, LAMBDA e : e.table = table)

\* exactly the removal of current - desired, if any, then exactly the insertion
\* of desired - current, if any
MinimalDiff(stmts, table, current, desired) ==
    LET del == current \ desired
        ins == desired \ current
    IN  /\ Len(stmts) = (IF del # {} THEN 1 ELSE 0) + (IF ins # {} THEN 1 ELSE 0)
        /\ del # {} => stmts[1] = [table |-> table, op |-> "delete", keys |-> del]
        /\ ins # {} => stmts[Len(stmts)] = [table |-> table, op |-> "insert", keys |-> ins]

\* C9: for each diffed relation (genres, studios, person+role pairs, screenshots)
\* with a non-empty desired set, sync_relations deletes exactly current minus
\* desired and inserts exactly desired minus current, removals before insertions,
\* and touches no member present in both.
C9_MinimalDiff ==
    [][call'.op = "sync_relations" =>
        LET a == call'.anime_id
            item == call'.item
            log == call'.log
        IN  /\ DesiredGenres(db', item) # {} =>
                  MinimalDiff(StmtsOn(log, "anime_genres"), "anime_genres",
                              LinksOf(db, "anime_genres", a), DesiredGenres(db', item))
            /\ DesiredStudios(db', item) # {} =>
                  MinimalDiff(StmtsOn(log, "anime_studios"), "anime_studios",
                              LinksOf(db, "anime_studios", a), DesiredStudios(db', item))
            /\ DesiredPersons(db', item) # {} =>
                  MinimalDiff(StmtsOn(log, "anime_persons"), "anime_persons",
                              LinksOf(db, "anime_persons", a), DesiredPersons(db', item))
            /\ DesiredScreenshots(item) # {} =>
                  MinimalDiff(StmtsOn(log, "anime_screenshots"), "anime_screenshots",
                              StoredScreenshots(db, a), DesiredScreenshots(item))]_vars

\* stored genres {A,B,C} met desired {B,C,D}: one removal (A), then one insertion (D)
C9_Witness ==
    /\ call.op = "sync_relations"
    /\ extract_genres(call.item) = <<"B", "C", "D">>
    /\ StmtsOn(call.log, "anime_genres") =
          << [table |-> "anime_genres", op |-> "delete",
              keys |-> NameIds(db, "genres", <<"A">>)],
             [table |-> "anime_genres", op |-> "insert",
              keys |-> NameIds(db, "genres", <<"D">>)] >>
    /\ Cardinality(NameIds(db, "genres", <<"A">>)) = 1

\* the rows of every relation table that belong to an anime
RelationRowsOf(d, b) ==
    [genres |-> LinksOf(d, "anime_genres", b),
     studios |-> LinksOf(d, "anime_studios", b),
     persons |-> LinksOf(d, "anime_persons", b),
     screenshots |-> [x \in BagRowsOf(d.anime_screenshots, b) |-> d.anime_screenshots[x]]]

\* C10: after sync_relations(anime_id, item, material) the stored genres, studios,
\* person+role pairs and screenshots of anime_id equal the desired sets derived
\* from (item, material), none remains where the desired set is empty, and the
\* rows of other anime ids are unchanged.
C10_StoredEqualsDesired ==
    [][call'.op = "sync_relations" =>
        LET a == call'.anime_id
            item == call'.item
        IN  /\ LinksOf(db', "anime_genres", a) = DesiredGenres(db', item)
            /\ LinksOf(db', "anime_studios", a) = DesiredStudios(db', item)
            /\ LinksOf(db', "anime_persons", a) = DesiredPersons(db', item)
            /\ StoredScreenshots(db', a) = DesiredScreenshots(item)
            /\ \A x \in BagRowsOf(db'.anime_screenshots, a) : db'.anime_screenshots[x] = 1
            /\ \A r \in db.anime : r.id # a =>
                  RelationRowsOf(db', r.id) = RelationRowsOf(db, r.id)]_vars

\* a call for anime 1 that emptied its genres and set its persons, beside anime 2's rows
C10_Witness ==
    /\ call.op = "sync_relations"
    /\ call.anime_id = 1
    /\ extract_genres(call.item) = <<>>
    /\ Cardinality(LinksOf(db, "anime_persons", 1)) = 3
    /\ Cardinality(LinksOf(db, "anime_genres", 2)) = 3
    /\ \E i \in 1..Len(call.log) : call.log[i] = Stmt("anime_genres", "delete_all", {})
    /\ db.genres # {}

\* the rows of a bag-valued table that belong to an anime, with their counts
BagOf(B, anime_id) == [x \in BagRowsOf(B, anime_id) |-> B[x]]

\* C19: sync never updates or deletes a translation row, and sync_relations
\* inserts a translation row only when no row with that (anime_id, external
\* translation id) pair exists: the rows only grow, by at most the one row of
\* the item, and never by a row whose pair is stored already.
C19_TranslationsAppendOnly ==
    [][call'.op = "sync_relations" =>
        LET a == call'.anime_id
            tr == call'.item.translation
            old == db.translations
            new == db'.translations
            stored == \E x \in DOMAIN old : x[1] = a /\ x[2] = tr.id
        IN  /\ old \sqsubseteq new
            /\ BagCardinality(new) <= BagCardinality(old) + 1
            /\ (BagCardinality(new) > BagCardinality(old)) => (tr.present /\ ~stored)
      ]_vars

\* the block rows the item asks for: one country row per entry of its list,
\* one season row per season of its map, the row "all" for the sentinel
DesiredCountries(a, item) ==
    LET l == item.rel.blocked_countries
    IN  [x \in {<<a, l[i]>> : i \in 1..Len(l)} |->
            Cardinality({i \in 1..Len(l) : <<a, l[i]>> = x})]
DesiredSeasons(a, item) ==
    LET b == item.rel.blocked_seasons
        rows == IF b.kind = "all" THEN {<<a, "all", <<"json", "all">> >>}
                ELSE IF b.kind = "map" THEN {<<a, e[1], <<"json", e[2]>> >> : e \in b.map}
                ELSE {}
    IN  [x \in rows |-> 1]

\* C20: after sync_relations returns, the stored blocked-country rows and
\* blocked-season rows of the anime are exactly those derived from the item,
\* whatever was stored before (none when the item carries none), and the rows
\* of the other anime are as they were.
C20_BlockedReplaced ==
    [][call'.op = "sync_relations" =>
        LET a == call'.anime_id
            item == call'.item
        IN  /\ BagOf(db'.blocked_countries, a) = DesiredCountries(a, item)
            /\ BagOf(db'.blocked_seasons, a) = DesiredSeasons(a, item)
            /\ \A r \in db.anime : r.id # a =>
                  /\ BagOf(db'.blocked_countries, r.id) = BagOf(db.blocked_countries, r.id)
                  /\ BagOf(db'.blocked_seasons, r.id) = BagOf(db.blocked_seasons, r.id)
      ]_vars

\* a later call for anime 1 left the one country and the one season of its
\* item stored
C20_Witness ==
    /\ call.op = "sync_relations" /\ call.n >= 2 /\ call.anime_id = 1
    /\ call.item.rel.blocked_countries = <<"US">>
    /\ BagOf(db.blocked_countries, 1) = (<<1, "US">> :> 1)
    /\ BagOf(db.blocked_seasons, 1) = (<<1, "1", <<"json", "x">> >> :> 1)

\* the season rows of the anime after the call
SeasonRows(a) == BagRowsOf(db'.blocked_seasons, a)

\* C21 as stated: the string "all" is stored as the single entry "all"; a map
\* is stored with one row per season; a value of any other shape, such as a
\* number, stores no row, logs a warning and does not raise.
C21_OtherShapeWarns ==
    [][call'.op = "sync_relations" =>
        LET a == call'.anime_id
            b == call'.item.rel.blocked_seasons
        IN  /\ b.kind = "all" => SeasonRows(a) = {<<a, "all", <<"json", "all">> >>}
            /\ b.kind = "map" =>
                  SeasonRows(a) = {<<a, e[1], <<"json", e[2]>> >> : e \in b.map}
            /\ b.kind \notin {"none", "all", "map"} =>
                  SeasonRows(a) = {} /\ call'.warned /\ ~call'.raised
      ]_vars

\* C21: the string "all" is stored as the single entry "all"; a map is stored
\* with one row per season; a truthy value of any other shape (the number 42)
\* stores no row and logs a warning; a falsy value (absent, or the number 0)
\* stores no row and logs no warning; none of them raises, and the warning is
\* logged for a truthy value of another shape only.
C21_SeasonsNormalized ==
    [][call'.op = "sync_relations" =>
        LET a == call'.anime_id
            b == call'.item.rel.blocked_seasons
        IN  /\ b.kind = "all" => SeasonRows(a) = {<<a, "all", <<"json", "all">> >>}
            /\ b.kind = "map" =>
                  SeasonRows(a) = {<<a, e[1], <<"json", e[2]>> >> : e \in b.map}
            /\ b.kind \in {"none", "zero", "other"} => SeasonRows(a) = {}
            /\ call'.warned <=> b.kind = "other"
            /\ ~call'.raised
            /\ \A x \in SeasonRows(a) : db'.blocked_seasons[x] = 1
      ]_vars

\* a call with a value of an unexpected shape logged the warning and left no
\* season row, after a call that had stored the two seasons of a map
C21_Witness ==
    /\ call.op = "sync_relations" /\ call.n >= 2 /\ call.anime_id = 1
    /\ call.item.rel.blocked_seasons.kind = "other"
    /\ call.warned
    /\ BagRowsOf(db.blocked_seasons, 1) = {}


----------------------------------------------------------------------------
(* Claims about the Sync Driver, checked under Spec.                       *)

\* the checkpoint file as the i-th finished pass found it
CheckpointBefore(i) == IF i = 1 THEN RawNone ELSE history[i - 1].checkpoint

\* the step on which fetch_and_save leaves its loop and returns
PassEnds == pc = "page" /\ pc' = "idle"

\* C1: across the passes the persisted checkpoint never decreases, and a pass
\* writes the checkpoint only with a value newer than the one it loaded at its
\* start.
C1_CheckpointMonotone ==
    [][ /\ load_last_sync(checkpoint') >= load_last_sync(checkpoint)
        /\ (PassEnds /\ newest # NULL)
              => /\ load_last_sync(checkpoint') = newest
                 /\ newest > last_sync
                 /\ last_sync = load_last_sync(checkpoint)
        /\ (checkpoint' # checkpoint) => (PassEnds /\ newest # NULL) ]_vars

\* a second pass has moved a checkpoint the first pass wrote
C1_Witness ==
    /\ Len(history) = 2
    /\ history[2].loaded # NULL
    /\ load_last_sync(history[2].checkpoint) > history[2].loaded

\* C2: a pass that ends early, because fetch_page raised after its retries or
\* because the stop signal was observed, leaves the persisted checkpoint
\* unchanged.
C2_EarlyEndKeepsCheckpoint ==
    \A i \in 1..Len(history) :
        history[i].exit_reason \in {"stopped", "fetch_failed"}
            => history[i].checkpoint = CheckpointBefore(i)

\* C3: when the stop signal cuts a pass short, the checkpoint the pass writes
\* is not greater than the newest updated_at among the items whose writes are
\* committed, and no write is uncommitted when it is persisted.
C3_StopCheckpointCommitted ==
    [][ (PassEnds /\ exit_reason' = "stopped" /\ checkpoint' # checkpoint)
            => /\ db = committed
               /\ ledger.pending = {}
               /\ \E t \in ledger.durable : load_last_sync(checkpoint') <= t ]_vars

\* the stop signal was seen between two items of a page, after an item with a
\* timestamp was processed, and the pass wrote the checkpoint
C3_Witness ==
    /\ pc = "idle"
    /\ Len(history) = 1
    /\ history[1].exit_reason = "stopped"
    /\ history[1].checkpoint # RawNone
    /\ results # <<>>
    /\ ledger.durable # {}


\* the number of items of a feed, and of those without a parseable updated_at
FeedItems(f) == Flatten(f)
CountNoStamp(items) ==
    Cardinality({i \in 1..Len(items) : parse_datetime(items[i].updated_at) = NULL})

\* the i-th finished pass ran over the feed the pass before it had run to
\* the end of without an error, however the i-th pass itself ended
SecondRun(i) ==
    /\ i >= 2
    /\ history[i - 1].exit_reason = "exhausted"
    /\ history[i - 1].metrics.errors_count = 0
    /\ history[i - 1].feed = history[i].feed

\* the i-th finished pass ran to the end of the feed: no stop signal, failed
\* fetch or run of old items ended it
RanToEnd(i) == history[i].exit_reason = "exhausted"

SecondRunCutOff ==
    /\ Len(history) = 2
    /\ SecondRun(2)
    /\ history[2].exit_reason = "cutoff"
    /\ CountNoStamp(FeedItems(history[2].feed)) = 1
    /\ history[2].metrics.updated_count = 0

\* a second run met one old item less than the threshold, then the item
\* without a timestamp, and ran to the end of the feed
SecondRunNotCutOff ==
    /\ Len(history) = 2
    /\ SecondRun(2)
    /\ RanToEnd(2)
    /\ Len(history[2].feed[1]) = CONSECUTIVE_OLD_THRESHOLD - 1
    /\ history[2].metrics.updated_count = 1

\* a second run over six timestamped items ended with no counter moved
SecondRunAllOld ==
    /\ Len(history) = 2
    /\ SecondRun(2)
    /\ RanToEnd(2)
    /\ Len(FeedItems(history[2].feed)) = 6
    /\ CountNoStamp(FeedItems(history[2].feed)) = 0
    /\ history[2].metrics = ZeroMetrics

\* two items are the same anime to the store: the same kodik id, or the row
\* of one matches the other
SameAnime(a, b) ==
    \/ a.id = b.id
    \/ Matches(MakeRow(NULL, a.id, build_anime_values(a)), b)

PairwiseDistinct(items) ==
    \A i, j \in 1..Len(items) : i # j => ~SameAnime(items[i], items[j])

\* the newest parsed updated_at of the items, NULL if none has one
MaxStamp(items) ==
    LET ts == {parse_datetime(items[i].updated_at) : i \in 1..Len(items)}
    IN  CHOOSE t \in ts \cup {NULL} : \A u \in ts : u <= t

\* the first pass ran to the end of a feed of pairwise distinct items
FirstRun ==
    /\ pc = "idle"
    /\ passes = 1
    /\ Len(history) = 1
    /\ history[1].exit_reason = "exhausted"
    /\ history[1].metrics.errors_count = 0
    /\ history[1].loaded = NULL
    /\ history[1].feed = feed
    /\ PairwiseDistinct(FeedItems(feed))

\* C8: a first-ever pass (no checkpoint, empty store) over a feed whose items
\* are pairwise distinct inserts one record per item, ends with added = the
\* number of items, updated = 0 and unchanged = 0, and persists as checkpoint
\* the newest updated_at among the items (none if no item carries one).
C8_FirstRunAddsAll ==
    FirstRun
        => /\ metrics.added_count = Len(FeedItems(feed))
           /\ metrics.updated_count = 0
           /\ metrics.unchanged_count = 0
           /\ {r.kodik_id : r \in db.anime}
                 = {FeedItems(feed)[i].id : i \in 1..Len(FeedItems(feed))}
           /\ Cardinality(db.anime) = Len(FeedItems(feed))
           /\ committed = db
           /\ load_last_sync(checkpoint) = MaxStamp(FeedItems(feed))

\* a first run over two pages of three distinct items whose newest timestamp
\* is not on the last item
C8_Witness ==
    /\ FirstRun
    /\ Len(feed) = 2
    /\ Len(FeedItems(feed)) = 3
    /\ metrics.added_count = 3
    /\ load_last_sync(checkpoint) = MaxTime
    /\ parse_datetime(FeedItems(feed)[3].updated_at) < MaxTime

----------------------------------------------------------------------------
(* Claim about the cutoff, checked under SpecCutoff.                       *)

\* the step takes an item newer than the loaded checkpoint into the try block
NewerItemStep ==
    /\ pc = "item" /\ pc' = "try"
    /\ results # <<>>
    /\ parse_datetime(Head(results).updated_at) # NULL
    /\ parse_datetime(Head(results).updated_at) > last_sync

\* C4: in an incremental pass, the step on which the count of consecutive
\* items not newer than the checkpoint reaches CONSECUTIVE_OLD_THRESHOLD leaves
\* the item loop and drops the next page; from then to the end of the pass no
\* item is processed and no page is fetched; an item newer than the checkpoint
\* met before resets the counter to 0.
C4_Cutoff ==
    [][ /\ (consecutive_old < CONSECUTIVE_OLD_THRESHOLD
                /\ consecutive_old' >= CONSECUTIVE_OLD_THRESHOLD)
              => /\ last_sync # NULL
                 /\ consecutive_old' = CONSECUTIVE_OLD_THRESHOLD
                 /\ pc' = "page" /\ page_url' = NULL
                 /\ UNCHANGED <<results, db, total_count, metrics, newest>>
        /\ (consecutive_old >= CONSECUTIVE_OLD_THRESHOLD /\ pc \in {"page", "item"})
              => /\ pc' \in {"page", "idle"}
                 /\ UNCHANGED <<results, db, total_count, metrics, newest,
                                page_url, consecutive_old>>
        /\ NewerItemStep => consecutive_old' = 0 ]_vars

\* the cutoff fired on the first item of a page that has another item, with a
\* next page set, in a pass that had processed an item before
C4_Witness ==
    /\ consecutive_old = CONSECUTIVE_OLD_THRESHOLD
    /\ pc = "idle"
    /\ exit_reason = "cutoff"
    /\ dropped_url # NULL
    /\ Len(results) = 2
    /\ total_count > 0


----------------------------------------------------------------------------
(* Claims about the Record Matcher, checked under SpecUpsert: at every     *)
(* store the calls of upsert_anime build, for every item of UpsertItems.   *)

\* no identity on the item: no shikimori id on the item or on the material,
\* no imdb id, and not both of title_orig and year
IdentityUnavailable(item) ==
    /\ item.shikimori_id = NULL /\ item.m_shikimori_id = NULL
    /\ item.imdb_id = NULL
    /\ (item.title_orig = NULL \/ item.year = NULL)

\* C15: for every item whose shikimori id (on the item and on the material),
\* imdb id and (title_orig, year) pair are all unavailable, find_existing_anime
\* returns null and issues no store query.
C15_NoIdentityNoQuery ==
    \A item \in UpsertItems :
        IdentityUnavailable(item)
            => /\ find_existing_anime(db, tiebreak, item) = NULL
               /\ MatcherReads(item) = 0
               /\ upsert_anime(db, tiebreak, item).reads = 1

\* an item with a title_orig but no year was inserted as a new record although
\* another record carries that title_orig
C15_Witness ==
    /\ call.op = "upsert" /\ call.added
    /\ IdentityUnavailable(call.item) /\ call.item.title_orig # NULL
    /\ \E r \in db.anime : r.id # call.id /\ r.title_orig = call.item.title_orig

\* the row satisfies the disjunction built from the inputs present on the item
SatisfiesIdentity(r, item) ==
    \/ (ItemShikimori(item) # NULL /\ r.shikimori_id = ItemShikimori(item))
    \/ (item.imdb_id # NULL /\ r.imdb_id = item.imdb_id)
    \/ (item.title_orig # NULL /\ item.year # NULL
          /\ r.title_orig = item.title_orig /\ r.year = item.year)

\* the rows of the store that satisfy it
Candidates(item) == {r \in db.anime : SatisfiesIdentity(r, item)}

\* C16: find_existing_anime returns the id of a row that satisfies the
\* disjunction and has the most recent updated_at among the rows that do, and
\* null when no row satisfies it.
C16_MostRecentMatch ==
    \A item \in UpsertItems :
        LET id == find_existing_anime(db, tiebreak, item)
        IN  IF Candidates(item) = {} THEN id = NULL
            ELSE \E r \in Candidates(item) :
                    /\ r.id = id
                    /\ \A q \in Candidates(item) : q.updated_at <= r.updated_at

\* a call found two rows of different updated_at for its item, resolved to the
\* more recent one and left the store as it was
C16_Witness ==
    /\ call.op = "upsert" /\ ~call.raised /\ ~call.changed /\ ~call.added
    /\ \E r, q \in Candidates(call.item) :
          r.updated_at > q.updated_at /\ q.updated_at # NULL /\ call.id = r.id

----------------------------------------------------------------------------
(* Claims about the Cache, checked under SpecCache.                        *)

\* the tasks that called get_or_create for the name of the kind
Callers(table, name) ==
    {t \in Tasks : tasks[t].pc # "idle" /\ tasks[t].table = table /\ tasks[t].name = name}

\* the task is between the grant of the lock and its release
InSection(t) == tasks[t].pc \in {"insert", "select"}

\* the section from the second lookup to the cache entry is mutually
\* exclusive per kind
SectionExclusive ==
    /\ \A t1, t2 \in Tasks :
          (t1 # t2 /\ InSection(t1) /\ InSection(t2))
              => tasks[t1].table # tasks[t2].table
    /\ \A t \in Tasks : InSection(t) => locks[tasks[t].table] = t

\* of the calls for one name of one kind at most one issues the INSERT
\* IGNORE, and when the name was cached at none of these calls and all have
\* returned, exactly one issued it and all returned the same id
OneInsertSameId(table, name) ==
    LET G == Callers(table, name)
        inserted == {t \in G : tasks[t].inserts > 0}
    IN  /\ Cardinality(inserted) <= 1
        /\ (G # {} /\ \A t \in G : tasks[t].pc = "done" /\ ~tasks[t].cached)
              => /\ Cardinality(inserted) = 1
                 /\ \A t \in inserted : tasks[t].inserts = 1
                 /\ \A t1, t2 \in G :
                       tasks[t1].id = tasks[t2].id /\ tasks[t1].id # NULL

\* C17: the section from the second lookup to the cache entry is mutually
\* exclusive per kind; of the concurrent calls for one not yet cached name of
\* one kind exactly one issues the INSERT IGNORE and all return the same id.
\* It fails for a name the column does not hold: the SELECT by the full name
\* finds no row, nothing is cached, and every caller in turn issues the
\* INSERT IGNORE and returns None.
C17_OneInsertSameId ==
    /\ SectionExclusive
    /\ \A table \in Kinds, name \in CacheNames \ {""} : OneInsertSameId(table, name)

\* what holds of it: the exclusion, and one insert and one id for the names
\* the column holds
OneInsertStoredName ==
    /\ SectionExclusive
    /\ \A table \in Kinds, name \in CacheNames \ {"", LongName} :
          OneInsertSameId(table, name)

\* every task called for the same name while it was not cached, two of them
\* waited for the lock, all have returned and one of them issued statements
AllCalledOneName ==
    /\ \E table \in Kinds, name \in CacheNames \ {""} : Callers(table, name) = Tasks
    /\ \A t \in Tasks : tasks[t].pc = "done" /\ ~tasks[t].cached
    /\ Cardinality({t \in Tasks : tasks[t].stmts = 0}) = NumTasks - 1

\* C18: a call with an empty name returns null, a call for a name that is in
\* the cache of its kind returns the cached id, and neither issues a statement
\* against the store.
C18_NoStoreAccess ==
    \A t \in Tasks :
        (tasks[t].pc # "idle" /\ (tasks[t].name = "" \/ tasks[t].cached))
            => /\ tasks[t].pc = "done"
               /\ tasks[t].stmts = 0 /\ tasks[t].inserts = 0
               /\ IF tasks[t].name = "" THEN tasks[t].id = NULL
                  ELSE <<tasks[t].name, tasks[t].id>> \in cache[tasks[t].table]

\* one call returned null for the empty name and another the id of a name
\* that a third call had created and cached
C18_Witness ==
    \E t1, t2, t3 \in Tasks :
        /\ tasks[t1].pc = "done" /\ tasks[t1].name = "" /\ tasks[t1].id = NULL
        /\ tasks[t2].pc = "done" /\ tasks[t2].cached /\ tasks[t2].id # NULL
        /\ tasks[t3].pc = "done" /\ tasks[t3].inserts = 1
        /\ tasks[t3].table = tasks[t2].table /\ tasks[t3].name = tasks[t2].name

----------------------------------------------------------------------------
(* Claims about failing items, checked under SpecFault.                    *)

\* the processing of the item raises: in upsert_anime, or, the record being
\* resolved, at the translation in check_new_translation or sync_relations
ProcessingRaises(d, tb, item) ==
    \/ upsert_anime(d, tb, item).raised
    \/ TranslationRaises(item)

\* the item loop stands before an item it will process, and that item raises
BeforeFailingItem ==
    /\ pc = "item" /\ results # <<>> /\ ~stop
    /\ ~IsOld(last_sync, parse_datetime(Head(results).updated_at))
    /\ ProcessingRaises(db, tiebreak, Head(results))

\* C11: when the processing of an item raises, the pass counts exactly one
\* error for it, counts it in no other metric, and goes on with the next item
\* of the page: the pass is not ended.
C11_ErrorCountedPassContinues ==
    /\ [][ (BeforeFailingItem /\ pc' = "try") => call'.p.raised ]_vars
    /\ [][ (pc = "try" /\ pc' = "try") => UNCHANGED <<metrics, results>> ]_vars
    /\ [][ (pc = "try" /\ call.p.raised /\ pc' # "try")
              => /\ metrics' = [metrics EXCEPT !.errors_count = @ + 1]
                 /\ results' = Tail(results)
                 /\ pc' = "item"
                 /\ UNCHANGED <<total_count, newest, page_url, checkpoint>> ]_vars

\* a pass ran to the end of a feed of three items whose first item raised,
\* with one error counted and the two others processed and counted
C11_Witness ==
    /\ Len(history) = 1
    /\ history[1].exit_reason = "exhausted"
    /\ Len(FeedItems(history[1].feed)) = 3
    /\ FeedItems(history[1].feed)[1] = FaultConflict
    /\ history[1].metrics.errors_count = 1
    /\ history[1].metrics.added_count = 1
    /\ history[1].metrics.unchanged_count = 1

\* C12: when the processing of an item raises part-way, the uncommitted writes
\* are rolled back: as the item leaves the try block the store is as it was
\* before the item, or as of the last commit, so no partial write of the
\* failed item is committed later.
C12_RaiseRollsBack ==
    [][ (pc = "try" /\ call.p.raised /\ pc' # "try")
            => db' \in {call.entry.db, committed} ]_vars


----------------------------------------------------------------------------
(* Claims about the commits of a pass, checked under SpecBatch.            *)

\* the step makes writes durable: the committed store changes, or processed
\* items leave the open transaction
CommitStep == committed' # committed \/ ledger'.uncommitted < ledger.uncommitted

\* the step leaves nothing in the open transaction
AllCommitted == committed' = db' /\ ledger'.uncommitted = 0

\* the step is the commit of line 104: the count of processed items has
\* reached a multiple of the batch size
BatchStep ==
    /\ pc = "commit"
    /\ pc' = "item"
    /\ total_count % BATCH_SIZE = 0
    /\ total_count > 0

\* the step leaves the item loop of a page: the items ran out, or a break
PageEnds == pc = "item" /\ pc' = "page"

\* C13 as stated: within a pass a commit is issued only when the count of
\* processed items reaches a multiple of the batch size (200) and at the end of
\* the pass, and at no other point of the pass.
C13_CommitOnlyAtBatchOrEnd ==
    [][ (pc # "idle" /\ CommitStep) => (BatchStep \/ PassEnds) ]_vars

\* C13: within a pass a commit is issued when the count of processed items
\* reaches a multiple of the batch size (200), when the item loop of a page is
\* left (every page, whatever the count), and at the end of the pass; no commit
\* is issued at any other point of the pass.
C13_CommitPoints ==
    [][ pc # "idle" =>
          /\ CommitStep => (BatchStep \/ PageEnds \/ PassEnds)
          /\ (BatchStep \/ PageEnds \/ PassEnds) => AllCommitted ]_vars

\* a pass that is not over has committed at a batch boundary inside the first
\* page and again at the end of that page, where the count is no multiple of
\* the batch size
C13_Witness ==
    /\ pc = "page" /\ page_url # NULL
    /\ total_count = BATCH_SIZE + 1
    /\ ledger.uncommitted = 0
    /\ committed = db

\* C14: at every point of a pass the number of processed items whose writes
\* are not yet committed is at most the batch size (200), and what is committed
\* is the store as of the last commit: it changes with a commit only.
C14_UncommittedBounded ==
    /\ ledger.uncommitted <= BATCH_SIZE
    /\ (ledger.uncommitted = 0 /\ pc \in {"item", "page"}) => committed = db

\* one item short of a batch is processed and uncommitted, inside a page
C14_Witness ==
    /\ pc = "item" /\ results # <<>>
    /\ ledger.uncommitted = BATCH_SIZE - 1
    /\ committed # db


----------------------------------------------------------------------------
(* Claims about the checkpoint load, checked under SpecLoad.               *)

\* the checkpoint file is missing or its content cannot be parsed
NoUsableFile(file) == file.kind \in {"none", "bad"}

\* C22: if the checkpoint file is missing or its content cannot be parsed,
\* load_last_sync returns null without raising and the pass runs as a
\* first-ever sync: no item is taken for old, every item of a fetched page is
\* processed, and the cutoff does not fire.
C22_BadFileIsFirstSync ==
    [][ /\ (pc = "idle" /\ pc' = "page" /\ NoUsableFile(checkpoint))
              => last_sync' = NULL
        /\ (pc \in {"page", "item", "try"} /\ NoUsableFile(checkpoint))
              => /\ last_sync = NULL
                 /\ consecutive_old' = 0
                 /\ exit_reason' # "cutoff"
                 /\ (pc # "page" /\ results' # results)
                       => /\ pc = "try"
                          /\ call.rest = <<>>
                          /\ results' = Tail(results)
                          /\ metrics' # metrics
      ]_vars

\* a pass that found an unparsable file ran to the end of the feed, processed
\* an item as old as the stored record, and left a checkpoint that parses
C22_Witness ==
    /\ Len(history) = 1
    /\ history[1].file = RawBad
    /\ history[1].loaded = NULL
    /\ history[1].exit_reason = "exhausted"
    /\ history[1].metrics.unchanged_count = 1
    /\ history[1].metrics.added_count = 1
    /\ load_last_sync(checkpoint) = MaxTime


----------------------------------------------------------------------------
(* Claims about the periodic loop, checked under SpecLive.                 *)

\* the last finished pass was ended by a failure of fetch_page
LastPassFetchFailed ==
    Len(history) >= 1 /\ history[Len(history)].exit_reason = "fetch_failed"

\* C23: when fetch_page raises after its retries the pass fetches no further
\* page, records one error and returns to periodic_sync, which stays alive:
\* unless the stop signal is set it starts a new pass after the interval.
C23_FetchFailureEndsPassOnly ==
    /\ [][ (pc = "page" /\ LastPassFetchFailed' /\ history' # history)
              => /\ pc' = "idle"
                 /\ metrics' = [metrics EXCEPT !.errors_count = @ + 1]
                 /\ UNCHANGED <<results, page_url, total_count, db>> ]_vars
    /\ [][ pc = "page" => pc' # "stopped" ]_vars
    /\ [][ (pc = "idle" /\ LastPassFetchFailed /\ ~stop) => pc' # "stopped" ]_vars
    /\ ((pc = "idle" /\ LastPassFetchFailed /\ passes < MaxPasses)
            ~> (stop \/ pc = "page"))

\* a pass ended by a failure of fetch_page with one error was followed by a
\* pass that ran to the end of the feed
C23_Witness ==
    /\ Len(history) = 2
    /\ history[1].exit_reason = "fetch_failed"
    /\ history[1].metrics.errors_count = 1
    /\ history[2].exit_reason = "exhausted"
    /\ history[2].metrics.added_count >= 1

\* C24: periodic_sync runs a pass, idles, and runs the next one; once the
\* stop signal is set no new pass is started and periodic_sync returns in the
\* end; set during the idle wait, the signal ends the wait: the next step of
\* periodic_sync is its return.
C24_StopEndsLoop ==
    /\ [][ stop => (stop' /\ passes' = passes) ]_vars
    /\ [][ (pc = "idle" /\ stop /\ pc' # pc) => pc' = "stopped" ]_vars
    /\ [][ pc = "stopped" => pc' = "stopped" ]_vars
    /\ (stop ~> pc = "stopped")
    /\ ((pc = "idle" /\ passes < MaxPasses) ~> (stop \/ pc = "page"))

\* periodic_sync has returned after two passes that ran to the end of the
\* feed: the stop signal came in the wait after the second
C24_Witness ==
    /\ pc = "stopped"
    /\ passes = 2
    /\ Len(history) = 2
    /\ history[1].exit_reason = "exhausted"
    /\ history[2].exit_reason = "exhausted"

----------------------------------------------------------------------------
(* Claims about the decision table of the Upsert Engine, checked under     *)
(* SpecUpsert: a step is a call of upsert_anime on the store the earlier   *)
(* calls left.                                                             *)

\* the anime table with row id rewritten from values v under catalog id k
TableWith(id, k, v) == {r \in db.anime : r.id # id} \cup {MakeRow(id, k, v)}

\* the four cases for the call that has just returned, read off the store
\* before the call
DecisionTable(item) ==
    LET found == find_existing_anime(db, tiebreak, item)
        incoming == parse_datetime(item.updated_at)
        v == build_anime_values(item)
        byKodik == {r \in db.anime : r.kodik_id = item.id}
    IN  IF found # NULL
        THEN IF /\ RowOf(db, found).updated_at # NULL
                /\ incoming # NULL
                /\ incoming <= RowOf(db, found).updated_at
             THEN /\ ~call'.raised
                  /\ <<call'.id, call'.changed, call'.added>> = <<found, FALSE, FALSE>>
                  /\ db' = db
             ELSE /\ ~call'.raised
                  /\ <<call'.id, call'.changed, call'.added>> = <<found, TRUE, FALSE>>
                  /\ db'.anime = TableWith(found, item.id, v)
        ELSE IF byKodik # {}
             THEN \E r \in byKodik :
                    /\ ~call'.raised
                    /\ <<call'.id, call'.changed, call'.added>> = <<r.id, TRUE, FALSE>>
                    /\ db'.anime = TableWith(r.id, r.kodik_id, v)
             ELSE /\ ~call'.raised
                  /\ <<call'.id, call'.changed, call'.added>>
                        = <<db.anime_next, TRUE, TRUE>>
                  /\ db'.anime = db.anime \cup {MakeRow(db.anime_next, item.id, v)}

\* C25: on any store, upsert_anime follows the four-case table: no-op if the
\* matched row is as fresh, overwrite with the incoming catalog id if matched
\* otherwise, overwrite but for the catalog id if found by catalog id only,
\* insert otherwise; each case returns its triple, and added implies changed.
C25_FourCases ==
    [][ call'.op = "upsert"
           => /\ DecisionTable(call'.item)
              /\ (call'.added => call'.changed) ]_vars

\* the table but for the rows the UNIQUE key of the catalog id protects: the
\* matched row is to take a catalog id that another row holds
CatalogIdConflict(item) ==
    LET found == find_existing_anime(db, tiebreak, item)
    IN  /\ found # NULL
        /\ ~FreshnessNoop(RowOf(db, found).updated_at, parse_datetime(item.updated_at))
        /\ KodikTaken(db, found, item.id)

C25_FourCasesUnlessConflict ==
    [][ (call'.op = "upsert" /\ ~CatalogIdConflict(call'.item))
           => /\ DecisionTable(call'.item)
              /\ (call'.added => call'.changed) ]_vars

----------------------------------------------------------------------------
(* Claims about the processing of an item, checked under SpecLoad: the     *)
(* store holds a record when the pass starts, with or without a usable     *)
(* checkpoint.                                                             *)

\* the step on which the item in flight, the head of the page, leaves the
\* try block with its statements made (lines 89-118)
ItemStep ==
    /\ pc = "try"
    /\ pc' # "try"
    /\ results # <<>>

\* the anime has no translation row with the external id of the item's
\* translation
LacksTranslation(d, anime_id, item) ==
    /\ item.translation.present
    /\ \A x \in DOMAIN d.translations :
          ~(x[1] = anime_id /\ item.translation.id # NULL /\ x[2] = item.translation.id)

\* C26: sync_relations is called for a processed item exactly when
\* upsert_anime reported it added or changed, or unchanged with a translation
\* the anime has no row of: an unchanged item without one leaves the store as
\* it is and is counted unchanged, an unchanged item with one is reconciled
\* and counted updated, an added item is counted added.
C26_RelationsWhenChangedOrNewTranslation ==
    [][ ItemStep =>
          LET item == Head(results)
              u == upsert_anime(call.entry.db, tiebreak, item)
              unchangedNew == ~u.changed /\ ~u.added /\ LacksTranslation(u.db, u.id, item)
          IN  (~u.raised /\ ~TranslationRaises(item)) =>
                 IF u.added \/ u.changed \/ unchangedNew
                 THEN /\ db' = sync_relations(u.db, call.entry.cache, u.id, item).db
                      /\ metrics' = Mark(metrics, IF u.added THEN "added_count"
                                                   ELSE "updated_count")
                 ELSE /\ db' = call.entry.db
                      /\ metrics' = Mark(metrics, "unchanged_count") ]_vars

\* a pass without a checkpoint met the stored item as it was (unchanged) and
\* another translation of its anime, not newer (counted updated): the anime
\* has the rows of both translations
C26_Witness ==
    /\ metrics = [added_count |-> 0, updated_count |-> 1, unchanged_count |-> 1,
                  errors_count |-> 0]
    /\ Cardinality(db.anime) = 1
    /\ Cardinality(BagRowsOf(db.translations, 1)) = 2

----------------------------------------------------------------------------
(* Claims about a pass without a checkpoint, checked under Spec.           *)

\* the pass under way loaded no checkpoint (is_first_sync, lines 26-27)
InFirstSync == pc \in {"page", "item", "try"} /\ last_sync = NULL

\* in a pass without a checkpoint the counter of old items stays 0 and every
\* item the pass takes off its page is processed
NoItemIsOld ==
    /\ [][ InFirstSync => consecutive_old' = 0 ]_vars
    /\ [][ (InFirstSync /\ pc # "page" /\ results' # results)
              => /\ pc = "try"
                 /\ call.rest = <<>>
                 /\ results' = Tail(results)
                 /\ metrics' # metrics
                 /\ dropped_url' = NULL ]_vars

\* the ways the finished passes without a checkpoint ended
FirstSyncEndings ==
    {history[i].exit_reason : i \in {j \in 1..Len(history) : history[j].loaded = NULL}}

\* C27: in a pass started with no checkpoint no item is old, the counter of
\* old items stays 0 and the cutoff never fires: the pass ends by page
\* exhaustion (no next page, or a response with nothing in it), fetch failure
\* or the stop signal only.
C27_FirstPassNeverCutOff ==
    /\ NoItemIsOld
    /\ [](FirstSyncEndings \subseteq {"exhausted", "empty", "fetch_failed", "stopped"})

\* a pass without a checkpoint ran to the end of a feed of two pages and
\* added every item, the later ones not newer than the first
C27_Witness ==
    /\ Len(history) >= 1
    /\ history[1].loaded = NULL
    /\ history[1].exit_reason = "exhausted"
    /\ history[1].metrics.added_count = MaxFeedItems
    /\ Len(history[1].feed) = 2
    /\ parse_datetime(history[1].feed[1][1].updated_at) = MaxTime
    /\ history[1].checkpoint = save_last_sync(MaxTime)

----------------------------------------------------------------------------
(* Specification of the stop signal within an item: the service of Spec    *)
(* over a few feeds of items that are inserted, updated and left as they   *)
(* are.  The stop signal may be set between any two statements of an item. *)

StopItems == {DriverItem(1, RawZ(1)), DriverItem(2, RawZ(2)), DriverItem(3, RawNone)}

StopItemSeqs ==
    UNION { {f \in [1..n -> StopItems] : \A i, j \in 1..n : i # j => f[i] # f[j]} :
            n \in 0..MaxFeedItems }

InitStop ==
    /\ db = EmptyDb
    /\ committed = EmptyDb
    /\ cache = EmptyCache
    /\ checkpoint = RawNone
    /\ \E items \in StopItemSeqs : feed = Paginate(items)
    /\ tiebreak = "low_id"
    /\ call = NoCall
    /\ DriverIdle

NextStop ==
    \/ StartPass
    \/ Stopped
    \/ LoopExit
    \/ StopAtPage
    \/ FetchRaise
    \/ FetchEmpty
    \/ FetchFeed
    \/ PageDone
    \/ StopAtItem
    \/ ItemOld
    \/ ItemProcess
    \/ ItemStatement
    \/ ItemDone
    \/ SetStop

SpecStop == InitStop /\ [][NextStop]_vars

----------------------------------------------------------------------------
(* Claims about the stop signal, checked under SpecStop.                   *)

\* C28: the stop signal is tested before a page is fetched and before an item
\* is started, nowhere else: once it is set no page is fetched and no item is
\* started (the pass ends as stopped and the item loop is left with the store,
\* the page and the counters as they are), while the item in flight, if any,
\* goes on with its next statement and is completed with all its writes, its
\* mark and its count, as it is without the signal.
C28_StopBetweenItemsOnly ==
    /\ [][ (stop /\ pc = "page" /\ page_url # NULL)
              => /\ pc' = "idle"
                 /\ history' # history
                 /\ history'[Len(history')].exit_reason = "stopped"
                 /\ UNCHANGED <<db, results, page_url, metrics>> ]_vars
    /\ [][ (stop /\ pc = "item")
              => UNCHANGED <<db, results, metrics, total_count, consecutive_old, newest>>
       ]_vars
    /\ [][ (stop /\ pc = "try" /\ call.rest # <<>>)
              => /\ pc' = "try"
                 /\ db' = Head(call.rest).db
                 /\ cache' = Head(call.rest).cache
                 /\ call'.rest = Tail(call.rest) ]_vars
    /\ [][ (pc = "try" /\ pc' # pc)
              => /\ call.rest = <<>>
                 /\ db = call.p.rel.db
                 /\ cache = call.p.rel.cache
                 /\ pc' = "item"
                 /\ results' = Tail(results)
                 /\ metrics' = call.p.metrics
                 /\ metrics' # metrics
                 /\ total_count' = call.p.total_count ]_vars

\* the stop signal was set while an item was in flight, after upsert_anime
\* had inserted its record: the statements of the item are all made, its
\* translation and its genres are stored, and it is about to be counted as
\* added
C28_Witness ==
    /\ stop
    /\ pc = "try"
    /\ call.rest = <<>>
    /\ call.p.metrics.added_count = 1
    /\ call.p.total_count = 1
    /\ db = call.p.rel.db
    /\ db.anime # {}
    /\ db.translations # EmptyBag
    /\ db.anime_genres # {}
    /\ committed = EmptyDb

----------------------------------------------------------------------------
(* Claims about the tracked maximum, checked under SpecFault.              *)

\* the timestamps of the items a pass that ran to the end of the feed has
\* processed, the failed ones among them: those of the feed that were not old
AttemptedStamps(h) ==
    {parse_datetime(Flatten(h.feed)[i].updated_at) : i \in 1..Len(Flatten(h.feed))}
        \ ({NULL} \cup {t \in 1..MaxTime : IsOld(h.loaded, t)})

\* C29: at the end of a pass the tracked maximum is the greatest updated_at
\* of the items the pass processed, the failed ones included, and it is
\* written to the checkpoint file if and only if there is one (stated for the
\* passes that ran to the end of the feed).
C29_MaxOverEveryBranch ==
    \A i \in 1..Len(history) :
        history[i].exit_reason = "exhausted" =>
            history[i].checkpoint =
                IF AttemptedStamps(history[i]) = {}
                THEN history[i].file
                ELSE save_last_sync(CHOOSE t \in AttemptedStamps(history[i]) :
                                        \A u \in AttemptedStamps(history[i]) : u <= t)

----------------------------------------------------------------------------
(* Specification of the transport (src/api/client.py): one call of         *)
(* fetch_page with an empty or a real url and any retries argument up to   *)
(* MaxRetries, where every request succeeds or fails with one of the three *)
(* kinds of error the function tells apart.  Here call is the call under   *)
(* way: its arguments, its position (pc), the loop variable, the requests  *)
(* sent, the errors caught, the waits slept, and what it returned or       *)
(* raised.                                                                 *)

FetchErrors == {"ClientError", "TimeoutError", "Exception"}

NoResult == [kind |-> "none", attempt |-> 0, error |-> "none"]

\* the JSON body of the response the request of this attempt got
Response(attempt) == [kind |-> "response", attempt |-> attempt, error |-> "none"]

Raised(e, attempt) == [kind |-> "error", attempt |-> attempt, error |-> e]

InitFetch ==
    /\ db = EmptyDb
    /\ committed = EmptyDb
    /\ cache = EmptyCache
    /\ checkpoint = RawNone
    /\ feed = <<>>
    /\ tiebreak = "low_id"
    /\ DriverIdle
    /\ \E url \in {NULL, BASE_URL} : \E retries \in 0..MaxRetries :
          call = [op |-> "fetch_page", url |-> url, retries |-> retries,
                  pc |-> "entry", attempt |-> 0, requests |-> 0,
                  errors |-> <<>>, sleeps |-> <<>>, result |-> NoResult]

fetchFrame ==
    /\ UNCHANGED <<db, committed, cache, checkpoint, feed, tiebreak>>
    /\ UNCHANGED driverVars

\* lines 13-14: if not url: return None
FetchEntry ==
    /\ call.op = "fetch_page"
    /\ call.pc = "entry"
    /\ call' = IF call.url = NULL
               THEN [call EXCEPT !.pc = "returned"]
               ELSE [call EXCEPT !.pc = "for"]
    /\ fetchFrame

\* line 16: for attempt in range(1, retries + 1); line 42 after the last
FetchFor ==
    /\ call.op = "fetch_page"
    /\ call.pc = "for"
    /\ call' = IF call.attempt + 1 <= call.retries
               THEN [call EXCEPT !.attempt = @ + 1, !.pc = "request"]
               ELSE [call EXCEPT !.pc = "returned"]
    /\ fetchFrame

\* lines 17-20: the request is sent and answered
FetchSuccess ==
    /\ call.op = "fetch_page"
    /\ call.pc = "request"
    /\ call' = [call EXCEPT !.requests = @ + 1, !.pc = "returned",
                            !.result = Response(call.attempt)]
    /\ fetchFrame

\* a faulty test: no attempt is taken for the last
LastAttemptNever(attempt, retries) == FALSE

\* if attempt == retries
LastAttempt(attempt, retries) == attempt = retries

\* lines 17-35: the request fails; the error is logged, and raised again from
\* the last attempt
FetchFailure ==
    /\ call.op = "fetch_page"
    /\ call.pc = "request"
    /\ \E e \in FetchErrors :
          call' = IF LastAttempt(call.attempt, call.retries)
                  THEN [call EXCEPT !.requests = @ + 1, !.errors = Append(@, e),
                                    !.pc = "raised",
                                    !.result = Raised(e, call.attempt)]
                  ELSE [call EXCEPT !.requests = @ + 1, !.errors = Append(@, e),
                                    !.pc = "backoff"]
    /\ fetchFrame

\* a faulty backoff: the wait grows by the base, not by its powers
wait_time_linear(attempt) == API_RETRY_BACKOFF_BASE * attempt

\* line 38: wait_time = API_RETRY_BACKOFF_BASE ** attempt
wait_time(attempt) == API_RETRY_BACKOFF_BASE ^ attempt

\* lines 37-40: the wait before the next attempt
FetchBackoff ==
    /\ call.op = "fetch_page"
    /\ call.pc = "backoff"
    /\ call' = IF call.attempt < call.retries
               THEN [call EXCEPT !.sleeps = Append(@, wait_time(call.attempt)),
                                 !.pc = "for"]
               ELSE [call EXCEPT !.pc = "for"]
    /\ fetchFrame

NextFetch ==
    \/ FetchEntry
    \/ FetchFor
    \/ FetchSuccess
    \/ FetchFailure
    \/ FetchBackoff

SpecFetch == InitFetch /\ [][NextFetch]_vars

----------------------------------------------------------------------------
(* Claims about the transport, checked under SpecFetch.                    *)

\* the waits after the first n failed attempts: the base, then each the base
\* times the one before
RECURSIVE Backoffs(_)
Backoffs(n) ==
    IF n = 0 THEN <<>>
    ELSE IF n = 1 THEN <<API_RETRY_BACKOFF_BASE>>
    ELSE Append(Backoffs(n - 1), API_RETRY_BACKOFF_BASE * Backoffs(n - 1)[n - 1])

FetchDone == call.pc \in {"returned", "raised"}

\* C30: fetch_page sends at most retries requests for a url; it returns the
\* response of the first request that succeeds; after a failed attempt that
\* is not the last it waits API_RETRY_BACKOFF_BASE^attempt seconds, and after
\* the last it waits no more and raises the error of that attempt; for an
\* empty url it returns None and sends nothing.
C30_BoundedRetriesWithBackoff ==
    /\ call.requests <= call.retries
    /\ call.requests = call.attempt - (IF call.pc = "request" THEN 1 ELSE 0)
    /\ call.sleeps = Backoffs(Len(call.sleeps))
    /\ call.url = NULL => (call.requests = 0 /\ call.result = NoResult /\ call.pc # "raised")
    /\ (FetchDone /\ call.result.kind = "response")
          => /\ call.pc = "returned"
             /\ call.result = Response(call.requests)
             /\ Len(call.errors) = call.requests - 1
             /\ Len(call.sleeps) = call.requests - 1
    /\ (FetchDone /\ call.requests > 0 /\ call.result.kind # "response")
          => /\ call.pc = "raised"
             /\ call.requests = call.retries
             /\ Len(call.errors) = call.retries
             /\ call.result = Raised(call.errors[call.retries], call.retries)
             /\ Len(call.sleeps) = call.retries - 1
    /\ call.pc = "raised" => call.requests > 0

\* with the default retries every request failed, the last with another error
\* than the first: waits of 2 and 4 seconds, and the last error is raised
C30_Witness ==
    /\ call.pc = "raised"
    /\ call.retries = API_RETRY_COUNT
    /\ call.requests = API_RETRY_COUNT
    /\ call.sleeps = <<2, 4>>
    /\ call.errors[1] = "ClientError"
    /\ call.result = Raised("TimeoutError", API_RETRY_COUNT)

----------------------------------------------------------------------------
(* Specification of the batch lookup (src/db/cache.py): the batch lookup   *)
(* of a kind is called up to MaxLookupCalls times with any list of at most *)
(* MaxNames names, empty names and a name the column cannot hold among     *)
(* them.  The genres table starts with a row, loaded in the cache or not   *)
(* (a row another process inserted after Cache.load).  Here call is the    *)
(* last call: its kind, its names and the list it returned.                *)

MaxLookupCalls == 2
MaxNames == 3

LookupNames == {"", "A", "B", LongName}

LookupLists == UNION {[1..n -> LookupNames] : n \in 0..MaxNames}

LookupInitDb == [EmptyDb EXCEPT !.genres = {[id |-> 1, name |-> "B"]},
                                !.ref_next.genres = 2]

InitLookup ==
    /\ db = LookupInitDb
    /\ committed = LookupInitDb
    /\ cache \in {EmptyCache, CacheLoad(LookupInitDb)}
    /\ checkpoint = RawNone
    /\ feed = <<>>
    /\ tiebreak = "low_id"
    /\ call = [op |-> "none", n |-> 0, table |-> "genres", names |-> <<>>,
               ids |-> <<>>]
    /\ DriverIdle

LookupCall(table, names) ==
    /\ call.n < MaxLookupCalls
    /\ \E b \in {get_ids_batch(db, cache, table, names)} :
          /\ db' = b.db
          /\ cache' = b.cache
          /\ call' = [op |-> "get_ids_batch", n |-> call.n + 1, table |-> table,
                      names |-> names, ids |-> b.ids]
    /\ UNCHANGED <<committed, checkpoint, feed, tiebreak>>
    /\ UNCHANGED driverVars

NextLookup ==
    \E table \in {"genres", "persons", "studios"} :
        \E names \in LookupLists : LookupCall(table, names)

SpecLookup == InitLookup /\ [][NextLookup]_vars

----------------------------------------------------------------------------
(* Claims about the batch lookup, checked under SpecLookup.                *)

\* the id of the row of the table with this name, NULL if there is none
IdOfName(d, table, name) ==
    IF \E r \in d[table] : r.name = name
    THEN (CHOOSE r \in d[table] : r.name = name).id
    ELSE NULL

RECURSIVE ResolvedIds(_, _, _)
\* the ids of the names of the list that are not empty and have a row, in the
\* order of the list
ResolvedIds(d, table, names) ==
    IF names = <<>> THEN <<>>
    ELSE IF Head(names) # "" /\ IdOfName(d, table, Head(names)) # NULL
         THEN <<IdOfName(d, table, Head(names))>> \o ResolvedIds(d, table, Tail(names))
         ELSE ResolvedIds(d, table, Tail(names))

\* C31: the batch lookup of a kind returns the ids of the names that resolve,
\* in the order of the input, an id per occurrence; empty names and names for
\* which get_or_create found no row are left out, and the call returns (it
\* does not raise) whatever the names.
C31_BatchIdsInOrder ==
    call.op = "get_ids_batch" =>
        /\ call.ids = ResolvedIds(db, call.table, call.names)
        /\ \A i \in 1..Len(call.ids) : call.ids[i] # NULL
        /\ Len(call.ids) <= Len(call.names)

\* a call with an empty name, a name the column cannot hold and two names
\* that resolve, the second one created by the call: two ids, in input order
C31_Witness ==
    /\ call.op = "get_ids_batch"
    /\ call.n = 1
    /\ call.table = "genres"
    /\ call.names = <<LongName, "A", "B">>
    /\ call.ids = <<3, 1>>

----------------------------------------------------------------------------
(* Claims about the items a pass leaves behind, checked under Spec.        *)

\* the list endpoint serves the items newest first (items without a
\* timestamp anywhere)
NewestFirst(items) ==
    \A i, j \in 1..Len(items) :
        (i < j /\ parse_datetime(items[i].updated_at) # NULL
               /\ parse_datetime(items[j].updated_at) # NULL)
            => parse_datetime(items[i].updated_at) >= parse_datetime(items[j].updated_at)

\* the store holds the record of the item, and not an older state of it
Reflected(d, item) ==
    \E r \in d.anime :
        /\ r.kodik_id = item.id \/ SqlEq(r.shikimori_id, ItemShikimori(item))
        /\ \/ parse_datetime(item.updated_at) = NULL
           \/ r.updated_at = NULL
           \/ r.updated_at >= parse_datetime(item.updated_at)

\* the items of the feed the store does not reflect are not old for the next
\* pass
LeftItemsStillNew ==
    \A i \in 1..Len(Flatten(feed)) :
        ~Reflected(db, Flatten(feed)[i])
            => ~IsOld(load_last_sync(checkpoint),
                      parse_datetime(Flatten(feed)[i].updated_at))

\* a pass has just ended on the feed as it is, served newest first
AfterPassOn ==
    /\ pc = "idle"
    /\ Len(history) >= 1
    /\ history[Len(history)].feed = feed
    /\ NewestFirst(Flatten(feed))

\* C32: no item is skipped for good: with the feed newest first, after any
\* pass, however it ended, every item of the feed that the store does not
\* reflect is newer than the checkpoint in the file (or has no timestamp), so
\* that a later pass processes it.
C32_NoItemSkippedForGood == AfterPassOn => LeftItemsStillNew

----------------------------------------------------------------------------
(* Claims about the metrics, checked under SpecFault.                      *)

\* SyncMetrics.total_count: the items counted as added, updated or unchanged
MetricsTotal(m) == m.added_count + m.updated_count + m.unchanged_count

\* one of the four counters is one greater, the others are as they were
OneCounterMore(m, n) ==
    \E c \in {"added_count", "updated_count", "unchanged_count", "errors_count"} :
        n = [m EXCEPT ![c] = @ + 1]

\* C33: an item that is not old adds one to exactly one of the counters
\* added, updated, unchanged, errors; added + updated + unchanged is the
\* total_count of the driver at every point; the errors counter grows by one
\* for an item that failed (total_count does not move) and by one for the
\* page fetch that failed, which ends the pass; nothing else moves a counter
\* within a pass.
C33_MetricsAccounting ==
    /\ [](MetricsTotal(metrics) = total_count)
    /\ [][ ItemStep
              => /\ OneCounterMore(metrics, metrics')
                 /\ (metrics'.errors_count = metrics.errors_count + 1)
                        <=> (total_count' = total_count) ]_vars
    /\ [][ (metrics' # metrics /\ ~ItemStep)
              => \/ pc = "idle" /\ pc' = "page" /\ metrics' = ZeroMetrics
                 \/ /\ pc = "page" /\ pc' = "idle"
                    /\ metrics' = [metrics EXCEPT !.errors_count = @ + 1]
                    /\ history'[Len(history')].exit_reason = "fetch_failed" ]_vars

\* a pass in which an item failed, an item was added and the fetch of the
\* second page failed: one added, two errors
C33_Witness ==
    /\ Len(history) >= 1
    /\ history[1].exit_reason = "fetch_failed"
    /\ history[1].metrics = [added_count |-> 1, updated_count |-> 0,
                             unchanged_count |-> 0, errors_count |-> 2]
    /\ total_count = 1

----------------------------------------------------------------------------
(* Claims about the old items, checked under SpecCutoff.                   *)

\* a step of the item loop on an item that has a timestamp not newer than
\* the checkpoint the pass loaded
OldItemStep ==
    /\ pc = "item"
    /\ ~stop
    /\ stop' = stop
    /\ results # <<>>
    /\ last_sync # NULL
    /\ parse_datetime(Head(results).updated_at) # NULL
    /\ parse_datetime(Head(results).updated_at) <= last_sync

\* C34: an item that is old in an incremental pass moves the counter of
\* consecutive old items and nothing else: the store and the cache are as
\* they were (no statement is issued), and so are the metrics, the tracked
\* maximum and the count of processed items.
C34_OldItemFrame ==
    [][ OldItemStep
          => /\ consecutive_old' = consecutive_old + 1
             /\ UNCHANGED <<db, cache, metrics, newest, total_count, checkpoint>> ]_vars

\* after an item was processed in the pass, two old items went by: the
\* counter is 2, one item is counted
C34_Witness ==
    /\ pc = "item"
    /\ consecutive_old = 2
    /\ total_count = 1
    /\ MetricsTotal(metrics) = 1
    /\ newest = MaxTime


\* the pass is in its loops and the cutoff has not ended them
PassRunning == pc \in {"page", "item", "try"} /\ exit_reason # "cutoff"

\* a step of the item loop on an item that is not old
FreshItemStep ==
    /\ pc = "item"
    /\ ~stop
    /\ stop' = stop
    /\ results # <<>>
    /\ \/ last_sync = NULL
       \/ parse_datetime(Head(results).updated_at) = NULL
       \/ parse_datetime(Head(results).updated_at) > last_sync

\* C35: the counter of consecutive old items goes on from page to page (the
\* end of a page and the fetch of the next leave it as it is), every item that
\* is not old sets it to 0, an item whose updated_at is absent or cannot be
\* parsed too, and while the pass runs it is between 0 and
\* CONSECUTIVE_OLD_THRESHOLD - 1.
C35_ConsecutiveOldCounter ==
    /\ [](PassRunning => consecutive_old \in 0..(CONSECUTIVE_OLD_THRESHOLD - 1))
    /\ [][ (pc = "item" /\ results = <<>>) \/ (pc = "page" /\ pc' = "item")
              => consecutive_old' = consecutive_old ]_vars
    /\ [][ FreshItemStep => consecutive_old' = 0 ]_vars

\* a page starts with the counter at one below the threshold, carried over
\* the pages before, and its first item has a timestamp that cannot be parsed
C35_Witness ==
    /\ pc = "item"
    /\ consecutive_old = CONSECUTIVE_OLD_THRESHOLD - 1
    /\ Len(results) = PageLen
    /\ Head(results).updated_at = RawBad


----------------------------------------------------------------------------
(* The UNIQUE key of the catalog id under upsert_anime (SpecUpsert).       *)

\* no two stored records carry the same catalog id
KodikUnique(d) == \A r1, r2 \in d.anime : r1.kodik_id = r2.kodik_id => r1.id = r2.id

\* C36: after any sequence of upsert_anime calls no two records carry the same
\* kodik_id, a record is inserted only when no stored row has the incoming
\* kodik_id, and no call ends in a uniqueness failure: the write of kodik_id
\* on the matched row never meets a different row that holds it.
C36_CatalogIdNeverCollides ==
    /\ [] KodikUnique(db)
    /\ [][ call'.op = "upsert"
             => /\ call'.added => ~\E r \in db.anime : r.kodik_id = call'.item.id
                /\ ~call'.raised ]_vars

\* the part the UNIQUE key enforces: rows stay distinct by kodik_id and an
\* insert happens only for a kodik_id no row holds; a call raises exactly when
\* the matched row is to take a kodik_id another row holds
C36_UniqueKeptByFailure ==
    /\ [] KodikUnique(db)
    /\ [][ call'.op = "upsert"
             => /\ call'.added => ~\E r \in db.anime : r.kodik_id = call'.item.id
                /\ call'.raised <=> CatalogIdConflict(call'.item) ]_vars


----------------------------------------------------------------------------
(* sync_relations called again with the arguments of the call before       *)
(* (SpecRel).                                                              *)

DiffedTables == {"anime_genres", "anime_screenshots", "anime_persons", "anime_studios"}

\* this step is a call of sync_relations with the arguments of the call
\* before it, which returned
SecondCall ==
    /\ call.op = "sync_relations"
    /\ ~call.raised
    /\ call'.op = "sync_relations"
    /\ call'.anime_id = call.anime_id
    /\ call'.item = call.item

\* the relation tables, the translation rows and the block tables are as the
\* call found them
RelationsKept ==
    /\ \A t \in DiffedTables : db'[t] = db[t]
    /\ db'.translations = db.translations
    /\ db'.blocked_countries = db.blocked_countries
    /\ db'.blocked_seasons = db.blocked_seasons

\* no statement of the log inserts or removes a member of a diffed relation
\* (the DELETE of all rows that an empty desired set asks for names no member)
NoDiffStatement(log) ==
    \A i \in 1..Len(log) :
        log[i].table \in DiffedTables => log[i].op \notin {"insert", "delete"}

\* C37: sync_relations is idempotent: a second call with the same (anime_id,
\* item) leaves the four relations, the translation rows and the block rows
\* as the first call left them and issues no insert and no delete of a member
\* of the four diffed relations.
C37_SyncRelationsIdempotent ==
    [][ SecondCall => (~call'.raised /\ RelationsKept /\ NoDiffStatement(call'.log)) ]_vars

\* idempotent for every item but the one whose translation descriptor has no id
C37_IdempotentWithTranslationId ==
    [][ (SecondCall /\ ~(call.item.translation.present /\ call.item.translation.id = NULL))
           => (~call'.raised /\ RelationsKept /\ NoDiffStatement(call'.log)) ]_vars


\* the stored translation rows of the pair (anime_id, external id), counted
RowsOfPair(d, anime_id, ext) ==
    LET keys == {x \in DOMAIN d.translations : x[1] = anime_id /\ x[2] = ext}
        RECURSIVE Sum(_)
        Sum(S) == IF S = {} THEN 0
                  ELSE LET x == CHOOSE y \in S : TRUE
                       IN  d.translations[x] + Sum(S \ {x})
    IN  Sum(keys)

\* the external translation ids an item may carry, NULL for a descriptor without id
TranslationIds == {NULL, 1, 2}

\* C38: after any sequence of sync_relations calls there is at most one
\* translation row per (anime_id, external translation id) pair, and
\* check_new_translation is true exactly when the item carries a translation
\* descriptor of which the anime has no row.
C38_OneRowPerPair ==
    \A a \in {r.id : r \in db.anime} :
        /\ \A ext \in TranslationIds : RowsOfPair(db, a, ext) <= 1
        /\ \A item \in RelItems(a) :
              check_new_translation(db, a, item)
                 <=> (item.translation.present
                        /\ RowsOfPair(db, a, item.translation.id) = 0)

\* the same for the descriptors that carry an id
C38_OneRowPerIdentifiedPair ==
    \A a \in {r.id : r \in db.anime} :
        /\ \A ext \in TranslationIds \ {NULL} : RowsOfPair(db, a, ext) <= 1
        /\ \A item \in RelItems(a) :
              item.translation.id # NULL =>
                (check_new_translation(db, a, item)
                   <=> (item.translation.present
                          /\ RowsOfPair(db, a, item.translation.id) = 0))


----------------------------------------------------------------------------
(* The cache against the reference tables, at every step of concurrent     *)
(* get_or_create calls (SpecCache).                                        *)

\* every entry of the cache of a kind is a row of the table of that kind
CacheMatchesStore(d, c) ==
    \A k \in Kinds : \A e \in c[k] : \E r \in d[k] : r.name = e[1] /\ r.id = e[2]

\* C39: at every point each entry name -> id of the cache of a kind is a row
\* of the reference table of that kind with that name and id; entries are
\* only added, reference rows are never updated or deleted, and a step that
\* touches one kind leaves the cache and the rows of the other kinds alone
\* (the kinds are separate namespaces).
C39_CacheStoreConsistency ==
    /\ [] CacheMatchesStore(db, cache)
    /\ [][ \A k \in Kinds :
              /\ cache[k] \subseteq cache'[k]
              /\ db[k] \subseteq db'[k]
              /\ (cache'[k] # cache[k] \/ db'[k] # db[k])
                    => \A o \in Kinds \ {k} : cache'[o] = cache[o] /\ db'[o] = db[o]
         ]_vars

\* the same name is cached under two kinds with different ids
C39_Witness ==
    /\ CacheHas(cache.genres, "A")
    /\ CacheHas(cache.persons, "A")
    /\ CacheGet(cache.genres, "A") # CacheGet(cache.persons, "A")
    /\ \A t \in Tasks : tasks[t].pc \in {"idle", "done"}

============================================================================
